---- MODULE Spec2Model ----
(***************************************************************************)
(* The cache-backed task runner of fbs (pkg/graph): the graph container,   *)
(* the closure hash, the sequential and the parallel scheduler, and the    *)
(* per-task cache probe / execute / publish cycle.                         *)
(*                                                                         *)
(* A behaviour is: one graph and one worker count chosen at Init, then up  *)
(* to MaxRuns calls of Runner.ExecuteWithProgressParallel on that graph    *)
(* against one cache directory.  Goroutines are interleaved at the points  *)
(* where they touch shared state (channels, the executed-tasks map, the    *)
(* cache directory, the context).                                          *)
(***************************************************************************)
EXTENDS Naturals, Integers, Sequences, FiniteSets, TLC

\* ---------------------------------------------------------------- bounds
\* parallelWorkers ranges over 1..MaxWorkers (1 is the sequential fall-back)
MaxWorkers == 2
\* number of runs of the same graph against the same cache directory
MaxRuns == 2

\* ------------------------------------------------------------ task objects
\* Task objects that exist; a graph holds a prefix of them, so a task object
\* that is not in the graph can still be listed as a dependency.
TaskObjs == {"A", "B", "C"}
TaskOrder == <<"A", "B", "C">>
GraphsTasks == {<<"A", "B">>, <<"A", "B", "C">>}

\* files a task may write into its work directory, in filepath.Walk order
WorkFiles == <<"f1", "f2">>
\* a path outside the work directory (an absolute path)
ExtFile == "/abs/out.jar"

Range(s) == {s[i] : i \in 1..Len(s)}

Perms(S) ==
    {s \in [1..Cardinality(S) -> S] :
        \A i, j \in 1..Cardinality(S) : i # j => s[i] # s[j]}

\* What Task.Execute may do: fail; write files into workDir and return their
\* relative paths (MockTask, KotlinCompile, JunitTest); or write nothing into
\* workDir and return an absolute path elsewhere (JarCompile, ArtifactDownload).
Outcomes ==
    { [err |-> TRUE,  wrote |-> {},           files |-> {}],
      [err |-> FALSE, wrote |-> {"f1", "f2"}, files |-> {"f1", "f2"}],
      [err |-> FALSE, wrote |-> {},           files |-> {ExtFile}] }

\* KotlinCompile.Execute returns only the files under classes/ that end in
\* .class (task.go 149-172): what it lists can be less than what is in its
\* work directory. Task B can be such a task.
ClassFilesOnly == [err |-> FALSE, wrote |-> {"f1", "f2"}, files |-> {"f1"}]
OutcomesOf(t) == Outcomes \cup (IF t = "B" THEN {ClassFilesOnly} ELSE {})

VARIABLES
    tasks,            \* Graph.tasks: task IDs in insertion order
    depList,          \* Task.Dependencies() of every task object (IDs, in order)
    ownHash,          \* Task.Hash() of every task object
    edges,            \* Graph.edges: dependency IDs recorded by AddTask
    addErr,           \* the last Graph.AddTask returned an error
    sorted,           \* what the last Graph.TopologicalSort returned
    hashLog,          \* what the calls of ComputeTaskHash returned, in order
    plan,             \* PlanWithStructure: directories left, the compilation root
    parallelWorkers,  \* argument of ExecuteWithProgressParallel
    runsLeft,         \* runs of this graph still allowed (this one included)
    cancelled,        \* ctx.Done() is closed
    cacheDirs,        \* <resultDir>/<hash> directories that exist
    cacheFiles,       \* <<hash, file>>: file present in <resultDir>/<hash>
    pcMain,           \* where the goroutine that called Execute is
    orderedTasks,     \* executeSequential: tasks still to run, in order
    taskInDegree,     \* executeParallel: uncompleted dependencies per task
    taskQueue,        \* executeParallel: the ready channel
    queueClosed,      \* close(taskQueue) has run
    resultChan,       \* executeParallel: results sent by workers
    errorChan,        \* executeParallel: runner errors sent by workers
    executedTasks,    \* executedTasks map (SafeExecutedTasks in parallel)
    results,          \* results accumulated by the runner
    retErr,           \* the error Execute returned ("none": not returned)
    wpc,              \* per goroutine running executeTask: its position
    cur,              \* the task that goroutine is working on
    inputs,           \* dependencyInputs handed to task.Execute
    toMove,           \* moveTempToCache: files still in the temp directory
    tempDir,          \* the goroutine's scratch directory (os.MkdirTemp) exists
    outcome,          \* what task.Execute returned
    execCount,        \* history: calls of task.Execute in this run
    failed,           \* history: tasks whose Execute returned an error
    produced,         \* history: <<hash, files written>> of successful Executes
    published,        \* history: <<hash, task, run>> of every completed move into the cache
    mutated,          \* history: hashes whose directory got a file after a completed move
    failedEver,       \* history: tasks whose Execute returned an error in any run
    ioFailed,         \* history: a move into the cache failed in this run
    prevOk            \* history: the previous run returned a nil error

vars == <<tasks, depList, ownHash, edges, addErr, sorted, hashLog, plan,
          parallelWorkers,
          runsLeft, cancelled,
          cacheDirs, cacheFiles, pcMain, orderedTasks, taskInDegree,
          taskQueue, queueClosed, resultChan, errorChan, executedTasks,
          results, retErr, wpc, cur, inputs, toMove, tempDir, outcome,
          execCount, failed, failedEver, produced, published, mutated,
          ioFailed, prevOk>>

graphVars == <<tasks, depList, ownHash, edges, addErr, sorted, hashLog, plan>>
inputVars == <<graphVars, parallelWorkers>>
dirVars   == <<cacheDirs, cacheFiles, produced, published, mutated>>
cacheVars == <<dirVars, failedEver>>
queueVars == <<taskInDegree, taskQueue, queueClosed>>
parVars   == <<taskInDegree, taskQueue, queueClosed, resultChan, errorChan>>

\* goroutine 0 is the caller (sequential mode); 1..parallelWorkers the workers
Executors == 0..(MaxWorkers + 1)
Workers == 1..parallelWorkers
Sequential == parallelWorkers <= 1

TaskSet == Range(tasks)

\* the IDs of the tasks returned by Dependencies(), as a set
deps == [t \in TaskObjs |-> Range(depList[t])]

NoErr == [kind |-> "none", task |-> "-"]
Err(k, t) == [kind |-> k, task |-> t]

\* ------------------------------------------------------------------ hash
RECURSIVE Closure(_)
Closure(S) ==
    LET N == S \cup UNION {deps[s] : s \in S}
    IN  IF N = S THEN S ELSE Closure(N)

\* tasks reachable from t through Dependencies(), t excluded unless on a cycle
Reach(t) == Closure(deps[t])

\* ComputeTaskHash(t) recurses through Dependencies() without a visited set
HashDiverges(t) == \E u \in {t} \cup Reach(t) : u \in Reach(u)

\* Task.Hash(): own hashes are strings of one fixed width, modelled as numbers
Hash(t) == ownHash[t]

\* sha-256 is modelled as injective: the digest stands for the bytes written
\* into the hasher, <<own hash, dependency digest, ..., dependency digest>>
Sha256OwnOnly(bytes) == <<Head(bytes)>>
Sha256(bytes) == bytes

\* the order of sort.Strings on digests: a strict total order, here the
\* lexicographic order on the bytes the digests stand for
RECURSIVE HashLess(_, _)
HashLess(a, b) ==
    IF a[1] # b[1] THEN a[1] < b[1]
    ELSE LET da == Tail(a)
             db == Tail(b)
             n  == IF Len(da) < Len(db) THEN Len(da) ELSE Len(db)
             differ == {i \in 1..n : da[i] # db[i]}
         IN  IF differ = {} THEN Len(da) < Len(db)
             ELSE LET i == CHOOSE j \in differ : \A k \in differ : j <= k
                  IN  HashLess(da[i], db[i])

SortStringsKeepOrder(s) == s
SortStrings(s) == SortSeq(s, HashLess)

\* ComputeTaskHash lines 411-429: own hash, then the digests of the
\* dependencies in Dependencies() order, sorted, each written into the hasher
RECURSIVE ComputeTaskHash(_)
ComputeTaskHash(t) ==
    LET depHashes == [i \in 1..Len(depList[t]) |-> ComputeTaskHash(depList[t][i])]
    IN  Sha256(<<Hash(t)>> \o SortStrings(depHashes))

\* ----------------------------------------------------------------- graph
\* Graph.AddTask lines 33-38: the dependency IDs it records for a task whose
\* Dependencies() are D, in order
AddTaskEdges(D) == D

\* occurrences of x in the list s
Count(s, x) == Cardinality({i \in 1..Len(s) : s[i] = x})

RECURSIVE Relax(_, _, _, _)
\* TopologicalSort lines 90-100: for every task (in insertion order), the
\* in-degree is lowered once per occurrence of current among its recorded
\* edges, and the task is queued when the in-degree reaches zero
Relax(i, current, inDeg, queue) ==
    IF i > Len(tasks) THEN [inDeg |-> inDeg, queue |-> queue]
    ELSE LET other == tasks[i]
             k == Count(edges[other], current)
         IN  IF k > 0
             THEN LET d == [inDeg EXCEPT ![other] = @ - k]
                  IN  Relax(i + 1, current, d,
                            IF inDeg[other] \in 1..k THEN Append(queue, other) ELSE queue)
             ELSE Relax(i + 1, current, inDeg, queue)

RECURSIVE KahnLoop(_, _, _)
KahnLoop(queue, inDeg, result) ==
    IF queue = <<>> THEN result
    ELSE LET current == Head(queue)
             r == Relax(1, current, inDeg, Tail(queue))
         IN  KahnLoop(r.queue, r.inDeg, Append(result, current))

\* The results TopologicalSort can return: the initial queue is filled by
\* ranging over a Go map, so in any order. <<"cycle">> stands for the error.
CycleError == <<"cycle detected in task graph">>
TopologicalSort ==
    LET inDeg == [t \in TaskSet |-> Len(edges[t])]
        zero  == {t \in TaskSet : inDeg[t] = 0}
    IN  { LET r == KahnLoop(q, inDeg, <<>>)
          IN  IF Len(r) # Len(tasks) THEN CycleError ELSE r
          : q \in Perms(zero) }

\* ----------------------------------------------------------------- cache
DirFiles(h) == {f \in Range(WorkFiles) : <<h, f>> \in cacheFiles}

\* Runner.isCached: the directory exists and has at least one entry
isCached(h) == h \in cacheDirs /\ DirFiles(h) # {}

\* Runner.loadCachedResult
loadCachedResult(t) ==
    [task |-> t, hash |-> ComputeTaskHash(t),
     files |-> DirFiles(ComputeTaskHash(t)), err |-> FALSE, cacheHit |-> TRUE]

ExecResult(t, o) ==
    [task |-> t, hash |-> ComputeTaskHash(t),
     files |-> IF o.err THEN {} ELSE o.files, err |-> o.err, cacheHit |-> FALSE]

\* executeTask lines 298-302: every dependency has a recorded result
DepsFoundUnchecked(t, executed) == TRUE
DepsFound(t, executed) == \A d \in deps[t] : d \in DOMAIN executed

\* executeTask lines 304-308
DependencyInputs(t, executed) ==
    [d \in deps[t] |->
        IF d \in DOMAIN executed
        THEN [dir |-> executed[d].hash, files |-> executed[d].files, found |-> TRUE]
        ELSE [dir |-> "", files |-> {}, found |-> FALSE]]

NoInputs == [d \in {} |-> 0]
NoOutcome == [err |-> FALSE, wrote |-> {}, files |-> {}]

\* ------------------------------------------------------------------ Init
Fresh == [t \in TaskObjs |-> IF t \in TaskSet THEN AddTaskEdges(depList[t]) ELSE <<>>]

\* A dependency added to a task after AddTask (AddDependency) is not in edges
StaleAt(s) == [Fresh EXCEPT ![s] = <<>>]

\* one dependency list per set of dependencies
InOrder(S) == SelectSeq(TaskOrder, LAMBDA x : x \in S)

\* own hashes: all different, or A and B with the same configuration
DistinctHashes == [t \in TaskObjs |-> CHOOSE i \in 1..Len(TaskOrder) : TaskOrder[i] = t]
SameHash(t, u) == [DistinctHashes EXCEPT ![u] = DistinctHashes[t]]


RunsFor(n) == IF n >= 3 THEN 1 ELSE MaxRuns

\* no run has started: NewRunner, an empty result directory, no goroutine
RunnerIdle ==
    /\ cancelled = FALSE
    /\ cacheDirs = {}
    /\ cacheFiles = {}
    /\ produced = {}
    /\ published = {}
    /\ mutated = {}
    /\ failedEver = {}
    /\ pcMain = "idle"
    /\ orderedTasks = <<>>
    /\ taskInDegree = [t \in TaskObjs |-> 0]
    /\ taskQueue = <<>>
    /\ queueClosed = FALSE
    /\ resultChan = <<>>
    /\ errorChan = <<>>
    /\ executedTasks = NoInputs
    /\ results = <<>>
    /\ retErr = NoErr
    /\ wpc = [e \in Executors |-> "off"]
    /\ cur = [e \in Executors |-> "-"]
    /\ inputs = [e \in Executors |-> NoInputs]
    /\ toMove = [e \in Executors |-> {}]
    /\ tempDir = [e \in Executors |-> FALSE]
    /\ outcome = [e \in Executors |-> NoOutcome]
    /\ execCount = [t \in TaskObjs |-> 0]
    /\ failed = {}
    /\ ioFailed = FALSE
    /\ prevOk = FALSE

\* what PlanWithStructure finds on disk: the external dependencies the build
\* file declares (ext), whether the plan root has a build.gradle.kts (build),
\* the name of the plan root, the directories below it, those that hold a
\* .kt file (kt) or a *Test.kt file (tst), and the (directory, discoverer)
\* pairs for which Discover returns an error
NoProject ==
    [ext |-> {}, build |-> FALSE, rootDir |-> <<"home", "proj">>, exists |-> {},
     kt |-> {}, tst |-> {}, failing |-> {}]

\* NewGradleCompilationRoot (structure.go 62-75): the id stands for the
\* instance
NewGradleCompilationRoot(id) ==
    [id |-> id, jarTask |-> FALSE, jarAllocs |-> 0, artifactTasks |-> <<>>,
     jarTaskReturned |-> FALSE, artifactsReturned |-> FALSE]

\* PlanWithStructure after the walk and the sort: the directories still to
\* process, the structure discoverer's cache (cached, root), the instances
\* created so far, tasksByDir, allErrors, and what each processed directory
\* was given (log)
\* LoadConfiguration on the fbs.conf.json files of a directory chain: its
\* locals currentDir, configFiles, the loop index i and the Config it builds
LoadStart(files) ==
    [files |-> files, currentDir |-> Len(files), configFiles |-> <<>>,
     i |-> 0, Discoverers |-> <<>>, err |-> FALSE, pc |-> "walk"]

\* the configuration of a directory chain without any fbs.conf.json
NoConfig ==
    [files |-> <<>>, currentDir |-> 0, configFiles |-> <<>>,
     i |-> 0, Discoverers |-> <<>>, err |-> FALSE, pc |-> "done"]

\* runExecute (main.go 122-286) after planning: the planned tasks with their
\* TaskType() and Directory(), the command's task type and directory, and
\* the tasks the filter selected
ExecStart(planned, types, dirs, taskType, baseDir) ==
    [planned |-> planned, types |-> types, dirs |-> dirs, taskType |-> taskType,
     baseDir |-> baseDir, filtered |-> <<>>, pc |-> "filter"]

\* no build, test or deps command is running
NoExecution ==
    [planned |-> <<>>, types |-> <<>>, dirs |-> <<>>, taskType |-> "",
     baseDir |-> <<>>, filtered |-> <<>>, pc |-> "off"]

\* a call of ArtifactDownload.downloadArtifact: its position, the loop
\* index, the HTTP requests it made with their outcomes, what os.Stat found
\* at the local path, the number of chunks io.Copy has written, and what
\* it returned
DownloadStart ==
    [pc |-> "stat", i |-> 1, requests |-> <<>>, responses |-> <<>>,
     found |-> FALSE, accepted |-> <<>>, offset |-> 0, ret |-> "-"]

\* the jar file at the local cache path and the calls of downloadArtifact
\* for that coordinate
NoDownload == [exists |-> FALSE, body |-> <<>>, calls |-> <<>>]

\* ParseGradleBuildFile on the lines of a build.gradle.kts: the number of
\* lines scanned, the two block flags, and the line numbers of the
\* dependencies and plugins recorded in buildInfo
ParseStart(lines) ==
    [lines |-> lines, scanned |-> 0, inDependenciesBlock |-> FALSE,
     inPluginsBlock |-> FALSE, Dependencies |-> <<>>, Plugins |-> <<>>]

PlanStart(project, dirs) ==
    [project |-> project, validDirs |-> dirs, dirs |-> dirs, n |-> 0,
     configuration |-> NoConfig, execution |-> NoExecution,
     download |-> NoDownload, parse |-> ParseStart(<<>>),
     cached |-> FALSE, root |-> NewGradleCompilationRoot(0), created |-> 0,
     tasksByDir |-> <<>>, errors |-> <<>>, log |-> <<>>, done |-> FALSE]

\* nothing is being planned
NoPlan == PlanStart(NoProject, <<>>)

\* TopologicalSort has not been called on the graph as it is now
NotSorted == <<"not sorted">>

Init ==
    /\ tasks \in GraphsTasks
    /\ depList \in [TaskObjs -> {InOrder(S) : S \in SUBSET TaskObjs}]
    /\ \A t \in TaskObjs \ TaskSet : depList[t] = <<>>
    /\ ownHash \in {DistinctHashes} \cup
                   (IF depList["A"] = depList["B"] THEN {SameHash("A", "B")} ELSE {})
    /\ parallelWorkers \in 1..MaxWorkers
    /\ edges \in {Fresh} \cup (IF Sequential THEN {StaleAt(s) : s \in TaskSet} ELSE {})
    /\ addErr = FALSE
    /\ sorted = NotSorted
    /\ hashLog = <<>>
    /\ plan = NoPlan
    /\ runsLeft = RunsFor(Len(tasks))
    /\ RunnerIdle


\* ------------------------------------------------------- returning a result
Record(executed, r) ==
    [t \in DOMAIN executed \cup {r.task} |-> IF t = r.task THEN r ELSE executed[t]]

\* executeSequential line 98 / executeParallel line 168: stop on a failed result
StopOnFailureNever(r) == FALSE
StopOnFailure(r) == r.err

\* executeTask returned (r, nil) to goroutine e.
\* e = 0: executeSequential lines 85-100; a worker: workerParallel lines 262-266
Return(e, r) ==
    IF e = 0
    THEN /\ results' = Append(results, r)
         /\ executedTasks' = Record(executedTasks, r)
         /\ orderedTasks' = Tail(orderedTasks)
         /\ wpc' = [wpc EXCEPT ![e] = "idle"]
         /\ IF StopOnFailure(r)
            THEN pcMain' = "returned" /\ retErr' = Err("task", r.task)
            ELSE IF Tail(orderedTasks) = <<>>
                 THEN pcMain' = "returned" /\ retErr' = Err("nil", "-")
                 ELSE UNCHANGED <<pcMain, retErr>>
         /\ UNCHANGED <<resultChan, errorChan>>
    ELSE /\ \/ /\ resultChan' = Append(resultChan, r)
               /\ wpc' = [wpc EXCEPT ![e] = "idle"]
            \/ /\ cancelled
               /\ wpc' = [wpc EXCEPT ![e] = "exited"]
               /\ UNCHANGED resultChan
         /\ UNCHANGED <<results, executedTasks, orderedTasks, pcMain, retErr, errorChan>>

\* executeTask returned an error to goroutine e.
\* e = 0: executeSequential line 82; a worker: workerParallel lines 244-250
ReturnErr(e, t) ==
    IF e = 0
    THEN /\ pcMain' = "returned"
         /\ retErr' = Err("runner", t)
         /\ wpc' = [wpc EXCEPT ![e] = "idle"]
         /\ UNCHANGED <<results, executedTasks, orderedTasks, resultChan, errorChan>>
    ELSE /\ \/ errorChan' = Append(errorChan, Err("runner", t))
            \/ cancelled /\ UNCHANGED errorChan
         /\ wpc' = [wpc EXCEPT ![e] = "exited"]
         /\ UNCHANGED <<results, executedTasks, orderedTasks, pcMain, retErr, resultChan>>

\* ComputeTaskHash never returns: the Go runtime ends the process (stack overflow)
Crash ==
    /\ pcMain' = "crashed"
    /\ retErr' = NoErr
    /\ wpc' = [e \in Executors |-> IF wpc[e] = "off" THEN "off" ELSE "exited"]
    /\ UNCHANGED <<results, executedTasks, orderedTasks, resultChan, errorChan>>

Continue(e, pc) ==
    /\ wpc' = [wpc EXCEPT ![e] = pc]
    /\ UNCHANGED <<results, executedTasks, orderedTasks, pcMain, retErr,
                   resultChan, errorChan>>

\* ------------------------------------------------------------ executeTask
\* executeTask line 294: the deferred os.RemoveAll(tempDir) runs on every return
RemoveTempNever(e) == tempDir
RemoveTemp(e) == [tempDir EXCEPT ![e] = FALSE]

\* executeTask lines 272-312: hash, cache probe, dependency inputs, and the
\* call of task.Execute
BeginTask(e, t, executed) ==
    IF HashDiverges(t)
    THEN /\ Crash
         /\ UNCHANGED <<cacheVars, cur, inputs, toMove, tempDir, outcome, execCount,
                        failed, ioFailed>>
    ELSE IF isCached(ComputeTaskHash(t))
    THEN /\ Return(e, loadCachedResult(t))
         /\ UNCHANGED <<cacheVars, cur, inputs, toMove, tempDir, outcome, execCount,
                        failed, ioFailed>>
    ELSE IF ~DepsFound(t, executed)
    THEN /\ ReturnErr(e, t)
         /\ UNCHANGED <<cacheVars, cur, inputs, toMove, tempDir, outcome, execCount,
                        failed, ioFailed>>
    ELSE /\ Continue(e, "executing")
         /\ cur' = [cur EXCEPT ![e] = t]
         /\ inputs' = [inputs EXCEPT ![e] = DependencyInputs(t, executed)]
         /\ execCount' = [execCount EXCEPT ![t] = @ + 1]
         /\ tempDir' = [tempDir EXCEPT ![e] = TRUE]
         /\ UNCHANGED <<cacheVars, toMove, outcome, failed, ioFailed>>

\* executeTask lines 312-336: task.Execute returns; on success the cache
\* directory is created (os.MkdirAll) before the move starts
FinishExecute(e) ==
    /\ wpc[e] = "executing"
    /\ \E o \in OutcomesOf(cur[e]) :
         LET t == cur[e]
             h == ComputeTaskHash(t)
         IN  IF o.err
             THEN /\ failed' = failed \cup {t}
                  /\ failedEver' = failedEver \cup {t}
                  /\ Return(e, ExecResult(t, o))
                  /\ cur' = [cur EXCEPT ![e] = "-"]
                  /\ inputs' = [inputs EXCEPT ![e] = NoInputs]
                  /\ tempDir' = RemoveTemp(e)
                  /\ UNCHANGED <<dirVars, toMove, outcome>>
             ELSE /\ cacheDirs' = cacheDirs \cup {h}
                  /\ produced' = produced \cup {<<h, o.wrote>>}
                  /\ published' = IF o.wrote = {}
                                  THEN published \cup {<<h, t, runsLeft>>}
                                  ELSE published
                  /\ UNCHANGED <<cacheFiles, mutated, failed, failedEver>>
                  /\ IF o.wrote = {}
                     THEN /\ Return(e, ExecResult(t, o))
                          /\ cur' = [cur EXCEPT ![e] = "-"]
                          /\ inputs' = [inputs EXCEPT ![e] = NoInputs]
                          /\ tempDir' = RemoveTemp(e)
                          /\ UNCHANGED <<toMove, outcome>>
                     ELSE /\ Continue(e, "moving")
                          /\ toMove' = [toMove EXCEPT ![e] = o.wrote]
                          /\ outcome' = [outcome EXCEPT ![e] = o]
                          /\ UNCHANGED <<cur, inputs, tempDir>>
    /\ UNCHANGED <<inputVars, runsLeft, cancelled, queueVars, execCount, ioFailed, prevOk>>

\* filepath.Walk visits the temp directory in lexical order
NextToMove(S) == WorkFiles[CHOOSE i \in 1..Len(WorkFiles) :
                      /\ WorkFiles[i] \in S
                      /\ \A j \in 1..(i - 1) : WorkFiles[j] \notin S]

\* moveTempToCache lines 393-424, one file per step: os.Rename moves the file
\* into the cache directory, or fails and the walk stops with that error
MoveFile(e) ==
    /\ wpc[e] = "moving"
    /\ LET t == cur[e]
           h == ComputeTaskHash(t)
           f == NextToMove(toMove[e])
       IN  \/ /\ cacheFiles' = cacheFiles \cup {<<h, f>>}
              /\ mutated' = IF \E p \in published : p[1] = h
                             THEN mutated \cup {h} ELSE mutated
              /\ published' = IF toMove[e] = {f}
                               THEN published \cup {<<h, t, runsLeft>>}
                               ELSE published
              /\ UNCHANGED <<cacheDirs, produced, failedEver, ioFailed>>
              /\ IF toMove[e] = {f}
                 THEN /\ Return(e, ExecResult(t, outcome[e]))
                      /\ cur' = [cur EXCEPT ![e] = "-"]
                      /\ inputs' = [inputs EXCEPT ![e] = NoInputs]
                      /\ toMove' = [toMove EXCEPT ![e] = {}]
                      /\ outcome' = [outcome EXCEPT ![e] = NoOutcome]
                      /\ tempDir' = RemoveTemp(e)
                 ELSE /\ Continue(e, "moving")
                      /\ toMove' = [toMove EXCEPT ![e] = @ \ {f}]
                      /\ UNCHANGED <<cur, inputs, outcome, tempDir>>
           \/ /\ ReturnErr(e, t)
              /\ ioFailed' = TRUE
              /\ cur' = [cur EXCEPT ![e] = "-"]
              /\ inputs' = [inputs EXCEPT ![e] = NoInputs]
              /\ toMove' = [toMove EXCEPT ![e] = {}]
              /\ outcome' = [outcome EXCEPT ![e] = NoOutcome]
              /\ tempDir' = RemoveTemp(e)
              /\ UNCHANGED cacheVars
    /\ UNCHANGED <<inputVars, runsLeft, cancelled, queueVars, execCount, failed, prevOk>>


\* ------------------------------------------------------- executeSequential
ReturnNow(e) ==
    /\ pcMain' = "returned"
    /\ retErr' = e

\* ExecuteWithProgressParallel lines 47-50 and executeSequential lines 58-61
StartSequential ==
    /\ pcMain = "idle"
    /\ Sequential
    /\ \E r \in TopologicalSort :
         IF r = CycleError
         THEN /\ ReturnNow(Err("sort", "-"))
              /\ UNCHANGED <<orderedTasks, wpc>>
         ELSE /\ orderedTasks' = r
              /\ pcMain' = "seq"
              /\ wpc' = [wpc EXCEPT ![0] = "idle"]
              /\ UNCHANGED retErr
    /\ UNCHANGED <<inputVars, runsLeft, cancelled, cacheVars, parVars,
                   executedTasks, results, cur, inputs, toMove, tempDir, outcome,
                   execCount, failed, ioFailed, prevOk>>

\* executeSequential lines 66-80: the context check, then executeTask
SeqNext ==
    /\ pcMain = "seq"
    /\ wpc[0] = "idle"
    /\ orderedTasks # <<>>
    /\ IF cancelled
       THEN /\ ReturnNow(Err("ctx", "-"))
            /\ UNCHANGED <<results, executedTasks, orderedTasks, resultChan,
                           errorChan, wpc, cacheVars, cur, inputs, toMove, tempDir,
                           outcome, execCount, failed, ioFailed>>
       ELSE BeginTask(0, Head(orderedTasks), executedTasks)
    /\ UNCHANGED <<inputVars, runsLeft, cancelled, taskInDegree, taskQueue,
                   queueClosed, prevOk>>

\* --------------------------------------------------------- executeParallel
\* executeParallel lines 146-149: the worker goroutines started
StartedWorkersOneMore == 1..(parallelWorkers + 1)
StartedWorkers == 1..parallelWorkers

\* executeParallel lines 111-123
InitialInDegree == [t \in TaskObjs |-> IF t \in TaskSet THEN Cardinality(deps[t]) ELSE 0]

\* executeParallel lines 107-149. Each send into taskQueue is a select with
\* ctx.Done(): once the context is cancelled either case may be chosen.
StartParallel ==
    /\ pcMain = "idle"
    /\ ~Sequential
    /\ LET ready == SelectSeq(tasks, LAMBDA t : InitialInDegree[t] = 0)
       IN  \/ /\ taskInDegree' = InitialInDegree
              /\ taskQueue' = ready
              /\ wpc' = [e \in Executors |-> IF e \in StartedWorkers THEN "idle" ELSE "off"]
              /\ pcMain' = "collect"
              /\ UNCHANGED retErr
           \/ /\ cancelled
              /\ ready # <<>>
              /\ ReturnNow(Err("ctx", "-"))
              /\ UNCHANGED <<taskInDegree, taskQueue, wpc>>
    /\ UNCHANGED <<inputVars, runsLeft, cancelled, cacheVars, orderedTasks,
                   queueClosed, resultChan, errorChan, executedTasks, results,
                   cur, inputs, toMove, tempDir, outcome, execCount, failed, ioFailed, prevOk>>

\* executeParallel line 180: the dependant is queued
BecomesReadyEveryTime(t, inDeg) == TRUE
BecomesReady(t, inDeg) == inDeg[t] = 0

\* executeParallel line 155: the collector's loop ends
AllCompletedOffByOne(n) == n > Len(tasks)
AllCompleted(n) == n >= Len(tasks)

\* executeParallel lines 161-197: one result received and handled
CollectResult ==
    /\ pcMain = "collect"
    /\ resultChan # <<>>
    /\ LET r == Head(resultChan)
           waiting == {t \in TaskSet : r.task \in deps[t]}
           inDeg == [t \in TaskObjs |->
                        IF t \in waiting THEN taskInDegree[t] - 1 ELSE taskInDegree[t]]
           newReady == SelectSeq(tasks, LAMBDA t : t \in waiting /\ BecomesReady(t, inDeg))
       IN  /\ resultChan' = Tail(resultChan)
           /\ results' = Append(results, r)
           /\ executedTasks' = Record(executedTasks, r)
           /\ IF StopOnFailure(r)
              THEN /\ ReturnNow(Err("task", r.task))
                   /\ UNCHANGED <<taskInDegree, taskQueue, queueClosed>>
              ELSE \/ /\ taskInDegree' = inDeg
                      /\ taskQueue' = taskQueue \o newReady
                      /\ IF AllCompleted(Len(results) + 1)
                         THEN /\ queueClosed' = TRUE
                              /\ ReturnNow(Err("nil", "-"))
                         ELSE UNCHANGED <<queueClosed, pcMain, retErr>>
                   \/ /\ cancelled
                      /\ newReady # <<>>
                      /\ \E k \in 0..(Len(newReady) - 1) :
                            taskQueue' = taskQueue \o SubSeq(newReady, 1, k)
                      /\ taskInDegree' = inDeg
                      /\ ReturnNow(Err("ctx", "-"))
                      /\ UNCHANGED queueClosed
    /\ UNCHANGED <<inputVars, runsLeft, cancelled, cacheVars, orderedTasks,
                   errorChan, wpc, cur, inputs, toMove, tempDir, outcome, execCount,
                   failed, ioFailed, prevOk>>

\* executeParallel lines 159-160
CollectError ==
    /\ pcMain = "collect"
    /\ errorChan # <<>>
    /\ ReturnNow(Head(errorChan))
    /\ errorChan' = Tail(errorChan)
    /\ UNCHANGED <<inputVars, runsLeft, cancelled, cacheVars, orderedTasks,
                   taskInDegree, taskQueue, queueClosed, resultChan,
                   executedTasks, results, wpc, cur, inputs, toMove, tempDir, outcome,
                   execCount, failed, ioFailed, prevOk>>

\* executeParallel lines 157-158
CollectCancel ==
    /\ pcMain = "collect"
    /\ cancelled
    /\ ReturnNow(Err("ctx", "-"))
    /\ UNCHANGED <<inputVars, runsLeft, cancelled, cacheVars, orderedTasks,
                   parVars, executedTasks, results, wpc, cur, inputs, toMove, tempDir,
                   outcome, execCount, failed, ioFailed, prevOk>>

\* workerParallel lines 227-243: a task received; the snapshot of the
\* executed-tasks map (ToMap) and the start of executeTask
WorkerTake(w) ==
    /\ wpc[w] = "idle"
    /\ w # 0
    /\ taskQueue # <<>>
    /\ taskQueue' = Tail(taskQueue)
    /\ BeginTask(w, Head(taskQueue), executedTasks)
    /\ UNCHANGED <<inputVars, runsLeft, cancelled, taskInDegree, queueClosed, prevOk>>

\* workerParallel lines 228-233: the context is done, or the queue is closed
WorkerExit(w) ==
    /\ wpc[w] = "idle"
    /\ w # 0
    /\ cancelled \/ (queueClosed /\ taskQueue = <<>>)
    /\ wpc' = [wpc EXCEPT ![w] = "exited"]
    /\ UNCHANGED <<inputVars, runsLeft, cancelled, cacheVars, pcMain, orderedTasks,
                   parVars, executedTasks, results, retErr, cur, inputs, toMove, tempDir,
                   outcome, execCount, failed, ioFailed, prevOk>>

\* --------------------------------------------------------------- environment
\* no goroutine of the run can take another step
Quiescent ==
    \A e \in Executors :
        \/ wpc[e] \in {"off", "exited"}
        \/ wpc[e] = "idle" /\ taskQueue = <<>> /\ ~queueClosed

\* the caller cancels the context (context.WithCancel)
Cancel ==
    /\ ~cancelled
    /\ pcMain \in {"idle", "seq", "collect"} \/ \E e \in Executors : wpc[e] \notin {"off", "exited"}
    /\ cancelled' = TRUE
    /\ UNCHANGED <<inputVars, runsLeft, cacheVars, pcMain, orderedTasks, parVars,
                   executedTasks, results, retErr, wpc, cur, inputs, toMove, tempDir,
                   outcome, execCount, failed, ioFailed, prevOk>>

\* the same graph is run again against the same cache directory, once the
\* previous run has returned and its goroutines have stopped
NewRun ==
    /\ pcMain = "returned"
    /\ runsLeft > 1
    /\ ~cancelled
    /\ Quiescent
    /\ runsLeft' = runsLeft - 1
    /\ prevOk' = (retErr.kind = "nil")
    /\ pcMain' = "idle"
    /\ retErr' = NoErr
    /\ orderedTasks' = <<>>
    /\ taskInDegree' = [t \in TaskObjs |-> 0]
    /\ taskQueue' = <<>>
    /\ queueClosed' = FALSE
    /\ resultChan' = <<>>
    /\ errorChan' = <<>>
    /\ executedTasks' = NoInputs
    /\ results' = <<>>
    /\ wpc' = [e \in Executors |-> "off"]
    /\ execCount' = [t \in TaskObjs |-> 0]
    /\ failed' = {}
    /\ ioFailed' = FALSE
    /\ UNCHANGED <<inputVars, cancelled, cacheVars, cur, inputs, toMove, tempDir, outcome>>

Next ==
    \/ StartSequential
    \/ SeqNext
    \/ StartParallel
    \/ CollectResult
    \/ CollectError
    \/ CollectCancel
    \/ \E w \in Executors : WorkerTake(w)
    \/ \E w \in Executors : WorkerExit(w)
    \/ \E e \in Executors : FinishExecute(e)
    \/ \E e \in Executors : MoveFile(e)
    \/ Cancel
    \/ NewRun

Spec == Init /\ [][Next]_vars

TypeOK ==
    /\ pcMain \in {"idle", "seq", "collect", "returned", "crashed"}
    /\ \A e \in Executors : wpc[e] \in {"off", "idle", "executing", "moving", "exited"}
    /\ \A t \in TaskObjs : execCount[t] \in Nat


\* ------------------------------------------------------------- fairness
\* Every goroutine that can run is eventually scheduled, and task.Execute and
\* the file moves return. Cancel and NewRun are the caller's choice: no fairness.
Fairness ==
    /\ WF_vars(StartSequential)
    /\ WF_vars(SeqNext)
    /\ WF_vars(StartParallel)
    /\ WF_vars(CollectResult)
    /\ WF_vars(CollectError)
    /\ WF_vars(CollectCancel)
    /\ \A e \in Executors :
          /\ WF_vars(WorkerTake(e))
          /\ WF_vars(WorkerExit(e))
          /\ WF_vars(FinishExecute(e))
          /\ WF_vars(MoveFile(e))

FairSpec == Init /\ [][Next]_vars /\ Fairness

\* ------------------------------------------------------ shared vocabulary
HasCycle == \E t \in TaskSet : t \in Reach(t)
DepsClosed == \A t \in TaskSet : deps[t] \subseteq TaskSet
Returned == pcMain = "returned"
ReturnedNil == Returned /\ retErr.kind = "nil"
InExecute == {e \in Executors : wpc[e] = "executing"}
Dependants(f) == {t \in TaskObjs : f \in Reach(t)}
ResultTasks == {results[i].task : i \in 1..Len(results)}

\* ------------------------------------------------ building a graph
\* The Graph API on its own: tasks are created, given dependencies
\* (AddDependency, before or after they are inserted), inserted with
\* AddTask, and the graph is sorted.  No run is started.
MaxEdges == 3

runnerVars == <<parallelWorkers, runsLeft, cancelled, cacheVars, pcMain,
                orderedTasks, parVars, executedTasks, results, retErr, wpc,
                cur, inputs, toMove, tempDir, outcome, execCount, failed,
                ioFailed, prevOk>>

RECURSIVE SumLen(_, _)
SumLen(f, S) ==
    IF S = {} THEN 0
    ELSE LET x == CHOOSE y \in S : TRUE IN Len(f[x]) + SumLen(f, S \ {x})

GraphInit ==
    /\ tasks = <<>>
    /\ depList = [t \in TaskObjs |-> <<>>]
    /\ ownHash \in {DistinctHashes, SameHash("A", "B")}
    /\ edges = [t \in TaskObjs |-> <<>>]
    /\ addErr = FALSE
    /\ sorted = NotSorted
    /\ hashLog = <<>>
    /\ plan = NoPlan
    /\ parallelWorkers = 1
    /\ runsLeft = 1
    /\ RunnerIdle

\* Graph.AddTask lines 22-40: a task whose ID is in the graph is rejected;
\* otherwise it is appended and its dependency IDs are recorded
AddTask(t) ==
    /\ IF \E i \in 1..Len(tasks) : tasks[i] = t
       THEN /\ addErr' = TRUE
            /\ UNCHANGED <<tasks, edges>>
       ELSE /\ addErr' = FALSE
            /\ tasks' = Append(tasks, t)
            /\ edges' = [edges EXCEPT ![t] = AddTaskEdges(depList[t])]
    /\ sorted' = NotSorted
    /\ UNCHANGED <<depList, ownHash, hashLog, plan, runnerVars>>

\* JarCompile.AddDependency (and its like): a task is appended to the
\* dependency list of a task object; the graph is not told
AddDependency(t, d) ==
    /\ SumLen(depList, TaskObjs) < MaxEdges
    /\ depList' = [depList EXCEPT ![t] = Append(@, d)]
    /\ sorted' = NotSorted
    /\ UNCHANGED <<tasks, ownHash, edges, addErr, hashLog, plan, runnerVars>>

\* a call of Graph.TopologicalSort
Sort ==
    /\ \E r \in TopologicalSort : sorted' = r
    /\ UNCHANGED <<tasks, depList, ownHash, edges, addErr, hashLog, plan, runnerVars>>

GraphNext ==
    \/ \E t \in TaskObjs : AddTask(t)
    \/ \E t, d \in TaskObjs : AddDependency(t, d)
    \/ Sort

GraphSpec == GraphInit /\ [][GraphNext]_vars

\* ------------------------------------------------ hashing task objects
\* ComputeTaskHash on its own: task objects (not in any graph) with
\* dependency lists in any order and with repeated entries; the hashes of
\* all of them are computed, a dependency list is reordered, and the hashes
\* are computed again.
MaxDeps == 2

HashObjs == TaskObjs \cup {"D"}
HashOrder == <<"D", "A", "B", "C">>
HashPos(t) == CHOOSE i \in 1..Len(HashOrder) : HashOrder[i] = t

\* the objects a task object can have been constructed with as dependencies
Earlier(t) == {u \in HashObjs : HashPos(u) > HashPos(t)}

SeqsUpTo(S, n) == UNION {[1..k -> S] : k \in 0..n}

\* own hashes: all different, two equal, all equal
OwnHashChoices ==
    { [t \in HashObjs |-> HashPos(t)],
      [t \in HashObjs |-> IF t = "A" THEN HashPos("D") ELSE HashPos(t)],
      [t \in HashObjs |-> 1] }

SeqPerms(s) ==
    { [i \in 1..Len(s) |-> s[f[i]]] :
        f \in {g \in [1..Len(s) -> 1..Len(s)] :
                   \A i, j \in 1..Len(s) : i # j => g[i] # g[j]} }

hashRest == <<tasks, ownHash, edges, addErr, sorted, plan, runnerVars>>

HashInit ==
    /\ \E dD \in SeqsUpTo(Earlier("D"), MaxDeps),
          dA \in SeqsUpTo(Earlier("A"), MaxDeps),
          dB \in SeqsUpTo(Earlier("B"), MaxDeps) :
            depList = [t \in HashObjs |->
                         CASE t = "D" -> dD [] t = "A" -> dA
                           [] t = "B" -> dB [] OTHER -> <<>>]
    /\ ownHash \in OwnHashChoices
    /\ tasks = <<>>
    /\ edges = [t \in TaskObjs |-> <<>>]
    /\ addErr = FALSE
    /\ sorted = NotSorted
    /\ hashLog = <<>>
    /\ plan = NoPlan
    /\ parallelWorkers = 1
    /\ runsLeft = 1
    /\ RunnerIdle

\* ComputeTaskHash is called on every task object
HashAll ==
    /\ Len(hashLog) < 2
    /\ hashLog' = Append(hashLog,
                     [lists |-> depList,
                      hash  |-> [t \in HashObjs |-> ComputeTaskHash(t)]])
    /\ UNCHANGED <<depList, hashRest>>

\* the dependency list of one task object is put into another order
Permute(t) ==
    /\ Len(hashLog) = 1
    /\ \E p \in SeqPerms(depList[t]) :
          /\ p # depList[t]
          /\ depList' = [depList EXCEPT ![t] = p]
    /\ UNCHANGED <<hashLog, hashRest>>

HashNext ==
    \/ HashAll
    \/ \E t \in HashObjs : Permute(t)

HashSpec == HashInit /\ [][HashNext]_vars

\* ------------------------------------------------------------ planning
\* PlanWithStructure on a directory tree with at most one Gradle compilation
\* root, the plan root.  Paths are sequences of names below the plan root.
\* The walk collects the directories, the sort puts the deepest first, and
\* each directory is processed in turn: the discoverers (KotlinDiscoverer,
\* then JunitDiscoverer) run on it with the tasks of its subdirectories as
\* potential dependencies, GetTaskDependencies adds the JAR task and the
\* artifact downloads and wires the dependencies, and the returned tasks
\* are added to the graph.
SrcMain == <<"src", "main">>
MainK == <<"src", "main", "kotlin">>
TestK == <<"src", "test", "kotlin">>
TestPkg == <<"src", "test", "kotlin", "pkg">>
Classes == <<"build", "classes">>

\* directories every project of the model has, and those it may have
AlwaysDirs == {<<>>, <<"src">>, <<"src", "main">>, <<"src", "test">>}
SkippedDirs == {<<".git">>, <<"build">>, Classes}
OptionalDirs == {MainK, TestK, TestPkg}
DirTree == AlwaysDirs \cup OptionalDirs \cup SkippedDirs
\* the plan root as an absolute path: filepath.Abs in main.go
RootDirs == {<<"home", "proj">>, <<"home", ".proj">>, <<"home", "build">>,
             <<"build", "proj">>, <<"src", "main">>}

\* the names of the model in the order filepath.Walk visits them (lexical)
NameOrder == <<".git", "build", "classes", "kotlin", "main", "pkg", "src", "test">>

\* strings.HasPrefix(info.Name(), ".")
HiddenNames == {".git", ".proj", ".gradle", ".idea", ".vscode", ".vs", ".tox",
                ".pytest_cache", ".coverage"}

\* isSkippableDir: the skip-list
isSkippableDir(name) ==
    name \in {"node_modules", "target", "build", "dist", "out", "bin", "obj",
              "Debug", "Release", "__pycache__", ".gradle", ".idea",
              ".vscode", ".vs", "vendor", "deps", "_build", ".tox",
              ".pytest_cache", ".coverage", "htmlcov"}

Kinds == {"km", "kt", "ju"}
KotlinKinds == {"km", "kt"}
Jar == <<"jar-compile", 0>>
Jupiter == <<"junit-jupiter", 0>>
Launcher == <<"junit-platform-console-standalone", 0>>
Declarable == <<Jupiter, Launcher>>
PlanObjs == (Kinds \X DirTree) \cup {Jar, Jupiter, Launcher}
DiscovererNames == <<"KotlinDiscoverer", "JunitDiscoverer">>

AbsPath(pr, path) == pr.rootDir \o path
BaseName(pr, path) == AbsPath(pr, path)[Len(AbsPath(pr, path))]

\* filepath.SkipDir is returned for this directory
SkipDirNever(pr, path) == FALSE
SkipDir(pr, path) ==
    \/ BaseName(pr, path) \in HiddenNames /\ path # <<>>
    \/ isSkippableDir(BaseName(pr, path))

\* PlanWithStructure lines 51-74: filepath.Walk in lexical order; a skipped
\* directory is not entered
RECURSIVE WalkDir(_, _)
RECURSIVE WalkNames(_, _, _)
WalkNames(pr, path, names) ==
    IF names = <<>> THEN <<>>
    ELSE (IF Append(path, Head(names)) \in pr.exists
          THEN WalkDir(pr, Append(path, Head(names))) ELSE <<>>)
         \o WalkNames(pr, path, Tail(names))

WalkDir(pr, path) ==
    IF SkipDir(pr, path) THEN <<>>
    ELSE <<path>> \o WalkNames(pr, path, NameOrder)

\* strings.Count(dir, separator): the plan root's own separators are the
\* same for every directory and are left out
Depth(path) == Len(path)

Swap(s, i, j) ==
    [k \in 1..Len(s) |-> IF k = i THEN s[j] ELSE IF k = j THEN s[i] ELSE s[k]]

\* sortDirectoriesByDepth: the two loops as written
RECURSIVE SortInner(_, _, _)
SortInner(dirs, i, j) ==
    IF j > Len(dirs) THEN dirs
    ELSE SortInner(IF Depth(dirs[i]) < Depth(dirs[j]) THEN Swap(dirs, i, j)
                   ELSE dirs, i, j + 1)

RECURSIVE SortOuter(_, _)
SortOuter(dirs, i) ==
    IF i > Len(dirs) THEN dirs ELSE SortOuter(SortInner(dirs, i, i + 1), i + 1)

sortDirectoriesByDepthNot(dirs) == dirs
sortDirectoriesByDepth(dirs) == SortOuter(dirs, 1)

\* isSubdirectory: sub starts with parent followed by a separator
isSubdirectory(parent, sub) ==
    Len(sub) > Len(parent) /\ SubSeq(sub, 1, Len(parent)) = parent

\* strings.Contains(dir, "src/main") and strings.Contains(dir, "src/test")
Contains(path, a, b) ==
    \E i \in 1..(Len(path) - 1) : path[i] = a /\ path[i + 1] = b
\* KotlinCompile.GetSourceDir: the directory as the planner passed it to
\* Discover, the absolute plan root joined with the path below it
GetSourceDir(path) == AbsPath(plan.project, path)
IsMain(path) == Contains(GetSourceDir(path), "src", "main")
IsTest(path) == Contains(GetSourceDir(path), "src", "test")

\* KotlinDiscoverer.isSourceRoot and isPartOfSourceTree, for the source
\* roots the directory tree has
isSourceRoot(path) ==
    /\ Len(path) >= 3
    /\ SubSeq(path, Len(path) - 2, Len(path)) \in {MainK, TestK}
isPartOfSourceTree(path) ==
    \E k \in 0..(Len(path) - 1) : isSourceRoot(SubSeq(path, 1, k))

\* the .kt files KotlinDiscoverer.Discover finds for a directory:
\* recursively for a source root, the directory's own otherwise
HasKotlinFiles(pr, path) ==
    IF isSourceRoot(path)
    THEN \E d \in pr.exists :
            (d = path \/ isSubdirectory(path, d)) /\ d \in pr.kt \cup pr.tst
    ELSE path \in pr.kt \cup pr.tst

KotlinCompileOf(path) == <<(IF IsMain(path) THEN "km" ELSE "kt"), path>>

\* KotlinDiscoverer.Discover (discoverer.go 28-108): the tasks it returns
KotlinDiscover(pr, path) ==
    IF HasKotlinFiles(pr, path) /\ (isSourceRoot(path) \/ ~isPartOfSourceTree(path))
    THEN <<KotlinCompileOf(path)>> ELSE <<>>

\* JunitDiscoverer.Discover (part_005 28-87), isTestFile (part_005 111-119)
JunitDiscover(pr, path) ==
    IF path \in pr.tst /\ IsTest(path) THEN << <<"ju", path>> >> ELSE <<>>

\* both discoverers give a new task the KotlinCompile tasks among the
\* potential dependencies
OnlyKotlin(potential) == SelectSeq(potential, LAMBDA t : t[1] \in KotlinKinds)

\* dependencies appended to each of the tasks ts (AddDependency)
AddDeps(l, ts, ds) ==
    [t \in DOMAIN l |-> IF t \in Range(ts) THEN l[t] \o ds ELSE l[t]]

\* PlanWithStructure lines 146-156: AddTask for every returned task; the
\* "already exists" error is skipped
RECURSIVE AddAll(_, _)
AddAll(g, ts) ==
    IF ts = <<>> THEN g
    ELSE AddAll(IF Head(ts) \in Range(g) THEN g ELSE Append(g, Head(ts)),
                Tail(ts))

\* GradleStructureDiscoverer.IsCompilationRoot (structure.go 33-49) for a
\* directory with a build.gradle.kts: the cached instance, or a new one
IsCompilationRootUncached(p) == NewGradleCompilationRoot(p.created + 1)
IsCompilationRoot(p) ==
    IF p.cached THEN p.root ELSE NewGradleCompilationRoot(p.created + 1)

\* GetTaskDependencies lines 263-270: every JunitTest gets the KotlinCompile
\* tasks of the directory it does not depend on yet
InjectKotlin(l, junitTestTasks, kotlinCompileTasks) ==
    [t \in DOMAIN l |->
       IF t \in Range(junitTestTasks)
       THEN l[t] \o SelectSeq(kotlinCompileTasks, LAMBDA k : k \notin Range(l[t]))
       ELSE l[t]]

\* GetTaskDependencies lines 138-141: a JAR task is created when the
\* directory has main-source compile tasks and the root has no JAR task yet
AllocateJarEveryTime(g, mainKotlinTasks) == mainKotlinTasks # <<>>
AllocateJar(g, mainKotlinTasks) == mainKotlinTasks # <<>> /\ ~g.jarTask

\* GradleCompilationRoot.GetTaskDependencies (structure.go 99-273) on root
\* instance g with the build file's external dependencies ext, the
\* dependency lists l and the tasks discovered in the directory
GetTaskDependencies(g, ext, l, kotlinCompileTasks, junitTestTasks) ==
    LET mainKotlinTasks == SelectSeq(kotlinCompileTasks, LAMBDA t : IsMain(t[2]))
        testKotlinTasks == SelectSeq(kotlinCompileTasks, LAMBDA t : IsTest(t[2]))
        discovered == kotlinCompileTasks \o junitTestTasks
        \* 1. the JAR task (lines 137-156)
        allocate == AllocateJar(g, mainKotlinTasks)
        jarTask == g.jarTask \/ allocate
        l1 == IF jarTask THEN AddDeps(l, <<Jar>>, mainKotlinTasks) ELSE l
        firstJar == jarTask /\ mainKotlinTasks # <<>> /\ ~g.jarTaskReturned
        all1 == discovered \o
                (IF firstJar \/ (jarTask /\ testKotlinTasks # <<>>)
                 THEN <<Jar>> ELSE <<>>)
        \* 2. the artifact downloads (lines 159-205)
        art2 == IF g.artifactTasks = <<>>
                THEN SelectSeq(Declarable, LAMBDA a : a \in ext)
                ELSE g.artifactTasks
        retArt == art2 # <<>> /\ ~g.artifactsReturned
        all2 == all1 \o (IF retArt THEN art2 ELSE <<>>)
        artifactsReturned == g.artifactsReturned \/ retArt
        \* 3., 3.5., 4. (lines 208-229)
        l3 == AddDeps(l1, kotlinCompileTasks, art2)
        l35 == IF jarTask THEN AddDeps(l3, testKotlinTasks, <<Jar>>) ELSE l3
        l4 == IF jarTask THEN AddDeps(l35, junitTestTasks, <<Jar>>) ELSE l35
        \* 5. the console launcher (lines 232-260)
        create == junitTestTasks # <<>> /\ Launcher \notin Range(art2)
        art5 == IF create THEN Append(art2, Launcher) ELSE art2
        all5 == all2 \o (IF create /\ ~artifactsReturned
                         THEN <<Launcher>> ELSE <<>>)
        l5 == IF junitTestTasks # <<>>
              THEN AddDeps(l4, junitTestTasks, <<Launcher>>) ELSE l4
        \* 6. (lines 263-270)
        l6 == InjectKotlin(l5, junitTestTasks, kotlinCompileTasks)
    IN  [root |-> [g EXCEPT !.jarTask = jarTask,
                            !.jarAllocs = @ + (IF allocate THEN 1 ELSE 0),
                            !.jarTaskReturned = @ \/ firstJar,
                            !.artifactTasks = art5,
                            !.artifactsReturned = artifactsReturned],
         deps |-> l6,
         all  |-> all5]

\* the sequences that hold the sequences f[d] of the directories in S one
\* after the other, in any order of the directories (ranging over a map)
InAnyOrder(f, S) ==
    LET RECURSIVE Cat(_)
        Cat(o) == IF o = <<>> THEN <<>> ELSE f[Head(o)] \o Cat(Tail(o))
    IN  {Cat(o) : o \in Perms(S)}

Projects ==
    { [ext |-> ext, build |-> build, rootDir |-> rootDir,
       exists |-> AlwaysDirs \cup opt \cup skipped,
       kt |-> kt, tst |-> tst, failing |-> failing] :
        ext \in {{}, {Jupiter}, {Jupiter, Launcher}}, build \in BOOLEAN,
        rootDir \in RootDirs,
        opt \in {o \in SUBSET OptionalDirs : TestPkg \in o => TestK \in o},
        skipped \in {{}, SkippedDirs},
        kt \in SUBSET {SrcMain, MainK, TestK, TestPkg},
        tst \in SUBSET {TestK, TestPkg},
        failing \in {{}} \cup {{<<TestK, n>>} : n \in Range(DiscovererNames)} }

\* PlanWithStructure lines 31-85: the walk and the sort
PlanInit ==
    /\ \E pr \in Projects :
          /\ (pr.kt \cup pr.tst) \subseteq pr.exists
          /\ pr.build \/ (pr.ext = {} /\ pr.failing = {})
          /\ plan = [PlanStart(pr, sortDirectoriesByDepth(WalkDir(pr, <<>>)))
                        EXCEPT !.tasksByDir = [d \in DirTree |-> <<>>]]
    /\ tasks = <<>>
    /\ depList = [t \in PlanObjs |-> <<>>]
    /\ edges = [t \in PlanObjs |-> <<>>]
    /\ ownHash = DistinctHashes
    /\ addErr = FALSE
    /\ sorted = NotSorted
    /\ hashLog = <<>>
    /\ parallelWorkers = 1
    /\ runsLeft = 1
    /\ RunnerIdle

\* PlanWithStructure lines 128-133: the discoverers whose Discover returned
\* an error for the directory, in the order they ran; each gives one error
FailuresDropped(pr, d) == <<>>
Failures(pr, d) == SelectSeq(DiscovererNames, LAMBDA n : <<d, n>> \in pr.failing)

\* PlanWithStructure lines 143-161: what GetTaskDependencies returned (r) is
\* added to the graph and stored for the directory
AddReturned(d, g, r, added, entry, failures) ==
    /\ depList' = r.deps
    /\ tasks' = added
    /\ edges' = [t \in DOMAIN edges |->
                   IF t \in Range(added) \ Range(tasks)
                   THEN AddTaskEdges(r.deps[t]) ELSE edges[t]]
    /\ plan' = [plan EXCEPT
          !.dirs = Tail(@), !.n = @ + 1,
          !.cached = TRUE, !.root = r.root,
          !.created = IF g.id = plan.root.id /\ plan.cached THEN @ ELSE @ + 1,
          !.tasksByDir = [@ EXCEPT ![d] = r.all],
          !.errors = @ \o [k \in 1..Len(failures) |-> <<failures[k], d>>],
          !.log = Append(@, entry)]

\* one directory: PlanWithStructure lines 88-161
PlanDir ==
    /\ ~plan.done
    /\ plan.dirs # <<>>
    /\ LET pr == plan.project
           d == Head(plan.dirs)
           subDirs == {s \in DirTree : isSubdirectory(d, s) /\ plan.tasksByDir[s] # <<>>}
       IN  IF ~pr.build
           THEN \* findCompilationRoot found nothing: the directory is skipped
                /\ plan' = [plan EXCEPT !.dirs = Tail(@), !.n = @ + 1]
                /\ UNCHANGED <<tasks, depList, edges>>
           ELSE \E potentialDeps \in InAnyOrder(plan.tasksByDir, subDirs) :
                LET g == IsCompilationRoot(plan)
                    ok(n) == <<d, n>> \notin pr.failing
                    kotlinCompileTasks ==
                        IF ok("KotlinDiscoverer") THEN KotlinDiscover(pr, d) ELSE <<>>
                    junitTestTasks ==
                        IF ok("JunitDiscoverer") THEN JunitDiscover(pr, d) ELSE <<>>
                    failures == Failures(pr, d)
                    l0 == AddDeps(depList, kotlinCompileTasks \o junitTestTasks,
                                  OnlyKotlin(potentialDeps))
                    r == GetTaskDependencies(g, pr.ext, l0, kotlinCompileTasks,
                                             junitTestTasks)
                IN  AddReturned(d, g, r, AddAll(tasks, r.all),
                                [dir |-> d, root |-> g.id, jarSeen |-> g.jarTask,
                                 potential |-> Range(potentialDeps),
                                 discovered |-> Range(kotlinCompileTasks)
                                                   \cup Range(junitTestTasks)],
                                failures)
    /\ UNCHANGED <<ownHash, addErr, sorted, hashLog, runnerVars>>

\* PlanWithStructure lines 164-186: a root without project dependencies is
\* left as it is by ResolveProjectDependencies, and the graph is returned
\* with the errors
PlanReturn ==
    /\ ~plan.done
    /\ plan.dirs = <<>>
    /\ plan' = [plan EXCEPT !.done = TRUE]
    /\ UNCHANGED <<tasks, depList, edges, ownHash, addErr, sorted, hashLog,
                   runnerVars>>

PlanNext == PlanDir \/ PlanReturn

PlanSpec == PlanInit /\ [][PlanNext]_vars

\* ------------------------------------------------------------ configuration
\* LoadConfiguration walks from the start directory up to the filesystem
\* root, collects the fbs.conf.json files it finds and merges them from the
\* root down to the start directory.

\* the directory chain: the filesystem root first, the start directory last
ConfigDirs == <<"/", "/home", "/home/proj">>

DiscovererIds == {"artifact-download", "kotlin"}

\* json.RawMessage values: the record of one discoverer, as its set of
\* key/value pairs
RawMessages ==
    { {<<"repositories", "central">>},
      {<<"repositories", "mirror">>, <<"timeout", "30">>},
      {<<"timeout", "60">>} }

NoRecords == [id \in {} |-> {}]
NoFile == [kind |-> "no fbs.conf.json", Discoverers |-> NoRecords]
BadFile == [kind |-> "not JSON", Discoverers |-> NoRecords]

\* what a directory can hold: no file, a file json.Unmarshal rejects, or a
\* file with records for some discoverer ids
FileContents ==
    {NoFile, BadFile} \cup
    {[kind |-> "JSON", Discoverers |-> f] :
        f \in UNION {[S -> RawMessages] : S \in SUBSET DiscovererIds}}

\* mergeConfigFile lines 727-730: every record of the file replaces the
\* record the configuration holds for its id
mergeConfigFileDeep(c, fileConfig) ==
    [id \in DOMAIN c \cup DOMAIN fileConfig |->
        IF id \in DOMAIN fileConfig
        THEN (IF id \in DOMAIN c
              THEN fileConfig[id] \cup
                   {kv \in c[id] : \A w \in fileConfig[id] : w[1] # kv[1]}
              ELSE fileConfig[id])
        ELSE c[id]]
mergeConfigFile(c, fileConfig) ==
    [id \in DOMAIN c \cup DOMAIN fileConfig |->
        IF id \in DOMAIN fileConfig THEN fileConfig[id] ELSE c[id]]

ConfigInit ==
    /\ \E files \in [1..Len(ConfigDirs) -> FileContents] :
          plan = [NoPlan EXCEPT !.configuration =
                     [LoadStart(files) EXCEPT !.Discoverers = NoRecords]]
    /\ tasks = <<>>
    /\ depList = [t \in PlanObjs |-> <<>>]
    /\ edges = [t \in PlanObjs |-> <<>>]
    /\ ownHash = DistinctHashes
    /\ addErr = FALSE
    /\ sorted = NotSorted
    /\ hashLog = <<>>
    /\ parallelWorkers = 1
    /\ runsLeft = 1
    /\ RunnerIdle

\* LoadConfiguration lines 687-700: one directory of the walk upwards
ConfigStat ==
    /\ plan.configuration.pc = "walk"
    /\ LET c == plan.configuration
           found == IF c.files[c.currentDir] # NoFile
                    THEN Append(c.configFiles, c.currentDir)
                    ELSE c.configFiles
       IN  plan' = [plan EXCEPT !.configuration =
                IF c.currentDir = 1
                THEN [c EXCEPT !.configFiles = found, !.i = Len(found),
                               !.pc = "merge"]
                ELSE [c EXCEPT !.configFiles = found,
                               !.currentDir = @ - 1]]
    /\ UNCHANGED <<tasks, depList, edges, ownHash, addErr, sorted, hashLog,
                   runnerVars>>

\* LoadConfiguration lines 703-708 with mergeConfigFile: one file, from
\* the last found (the root-most) to the first found
ConfigMerge ==
    /\ plan.configuration.pc = "merge"
    /\ plan.configuration.i >= 1
    /\ LET c == plan.configuration
           fileConfig == c.files[c.configFiles[c.i]]
       IN  plan' = [plan EXCEPT !.configuration =
                IF fileConfig = BadFile
                THEN [c EXCEPT !.err = TRUE, !.pc = "done"]
                ELSE [c EXCEPT !.Discoverers = mergeConfigFile(@, fileConfig.Discoverers),
                               !.i = @ - 1]]
    /\ UNCHANGED <<tasks, depList, edges, ownHash, addErr, sorted, hashLog,
                   runnerVars>>

\* LoadConfiguration line 710
ConfigReturn ==
    /\ plan.configuration.pc = "merge"
    /\ plan.configuration.i = 0
    /\ plan' = [plan EXCEPT !.configuration.pc = "done"]
    /\ UNCHANGED <<tasks, depList, edges, ownHash, addErr, sorted, hashLog,
                   runnerVars>>

ConfigNext == ConfigStat \/ ConfigMerge \/ ConfigReturn

ConfigSpec == ConfigInit /\ [][ConfigNext]_vars

\* =========================================================================
\* The build, test and deps commands (main.go runExecute): the planned graph is
\* filtered by task type and directory, and createExecutionGraph builds a new
\* graph from the selected task objects and what they reach over
\* Dependencies(). The planned task objects are A, B, C with any dependency
\* lists without a task listed by itself; the build tasks A and B can depend on
\* each other, as the JAR task and a compile task do after the stitching of
\* a source directory that counts as main and as test.
\* =========================================================================
TaskTypes == {"build", "test", "deps"}

\* the command's directory, and the directories tasks are in: the command's
\* directory, two directories below it and one elsewhere (the artifact cache)
ExecDir == <<"p">>
TaskDirs == {<<"p">>, <<"p", "sub">>, <<"p", "..gen">>, <<"cache">>}

\* filepath.Rel(baseDir, taskDir) for clean absolute paths
Rel(baseDir, taskDir) ==
    LET common == CHOOSE k \in 0..Len(baseDir) :
                     /\ k <= Len(taskDir)
                     /\ SubSeq(baseDir, 1, k) = SubSeq(taskDir, 1, k)
                     /\ \A m \in (k + 1)..Len(baseDir) :
                           m > Len(taskDir)
                           \/ SubSeq(baseDir, 1, m) # SubSeq(taskDir, 1, m)
        rest == SubSeq(taskDir, common + 1, Len(taskDir))
        up == [i \in 1..(Len(baseDir) - common) |-> ".."]
    IN  IF up \o rest = <<>> THEN <<".">> ELSE up \o rest

\* strings.HasPrefix(relPath, ".."): the first two characters of the path
DotDotNames == {"..", "..gen"}
HasDotDotPrefix(relPath) == Head(relPath) \in DotDotNames

\* filterTasksByTypeAndDirectory (main.go 289-308)
filterTasksByTypeAndDirectory(ts, types, dirs, taskType, baseDir) ==
    SelectSeq(ts, LAMBDA t :
        /\ types[t] = taskType
        /\ \/ taskType = "deps"
           \/ ~HasDotDotPrefix(Rel(baseDir, dirs[t])))

\* createExecutionGraph (main.go 311-337): addTaskWithDependencies marks the
\* task visited, recurses into its dependencies in list order, and then adds
\* the task to the new graph; st holds the visited map and the graph's tasks
RECURSIVE addTaskWithDependencies(_, _)
RECURSIVE addEach(_, _)
addTaskWithDependencies(task, st) ==
    IF task \in st.visited THEN st
    ELSE LET below == addEach(depList[task],
                              [st EXCEPT !.visited = @ \cup {task}])
         IN  [below EXCEPT !.tasks = Append(@, task)]
addEach(ts, st) ==
    IF ts = <<>> THEN st
    ELSE addEach(Tail(ts), addTaskWithDependencies(Head(ts), st))

createExecutionGraph(filteredTasks) ==
    addEach(filteredTasks, [visited |-> {}, tasks |-> <<>>]).tasks

ExecInit ==
    /\ depList \in [TaskObjs -> {InOrder(S) : S \in SUBSET TaskObjs}]
    /\ \A t \in TaskObjs : t \notin Range(depList[t])
    /\ \E planned \in {<<"A", "B", "C">>, <<"C", "B">>},
          types \in [TaskObjs -> {"build", "deps"}],
          moved \in TaskObjs, dir \in TaskDirs,
          taskType \in TaskTypes :
          \* the one cycle planning can leave: two build tasks, A the JAR
          \* task and B a compile task, that list each other
          /\ \A t \in TaskObjs : t \in Reach(t) =>
                /\ t \in {"A", "B"}
                /\ "B" \in deps["A"] /\ "A" \in deps["B"]
                /\ types["A"] = "build" /\ types["B"] = "build"
          /\ plan = [NoPlan EXCEPT !.execution =
                    ExecStart(planned, types,
                              [t \in TaskObjs |-> IF t = moved THEN dir ELSE ExecDir],
                              taskType, ExecDir)]
    /\ tasks = <<>>
    /\ edges = [t \in TaskObjs |-> <<>>]
    /\ ownHash = DistinctHashes
    /\ addErr = FALSE
    /\ sorted = NotSorted
    /\ hashLog = <<>>
    /\ parallelWorkers = 1
    /\ runsLeft = 1
    /\ RunnerIdle

\* runExecute lines 170-175: the filter; with nothing selected the command
\* prints "No ... tasks found" and returns
ExecFilter ==
    /\ plan.execution.pc = "filter"
    /\ LET x == plan.execution
           filtered == filterTasksByTypeAndDirectory(x.planned, x.types, x.dirs,
                                                     x.taskType, x.baseDir)
       IN  plan' = [plan EXCEPT !.execution =
                      [x EXCEPT !.filtered = filtered,
                                !.pc = IF filtered = <<>> THEN "none" ELSE "create"]]
    /\ UNCHANGED <<tasks, depList, edges, ownHash, addErr, sorted, hashLog,
                   runnerVars>>

\* runExecute line 178: the execution graph; Graph.AddTask records the
\* dependency IDs of each task added
ExecCreate ==
    /\ plan.execution.pc = "create"
    /\ LET added == createExecutionGraph(plan.execution.filtered)
       IN  /\ tasks' = added
           /\ edges' = [t \in TaskObjs |->
                          IF t \in Range(added) THEN AddTaskEdges(depList[t])
                          ELSE <<>>]
    /\ plan' = [plan EXCEPT !.execution.pc = "run"]
    /\ UNCHANGED <<depList, ownHash, addErr, sorted, hashLog, runnerVars>>

ExecNext == ExecFilter \/ ExecCreate

ExecSpec == ExecInit /\ [][ExecNext]_vars

\* =========================================================================
\* ArtifactDownload.downloadArtifact (part_002 533-592) for one coordinate:
\* the jar file at the local cache path, and calls of downloadArtifact for
\* it by tasks of one run in different workers or by different runs. A call
\* that starts after another has returned is a later run. The jar's body is
\* a sequence of chunks, the same from every repository.
\* =========================================================================
MaxCalls == 2
BodyLen == 2
Calls == 1..MaxCalls
Repositories == <<"repo1", "repo2">>
Body == [k \in 1..BodyLen |-> k]

\* the outcomes of http.Get: an error, a status other than 200, or 200
Responses == {"error", "404", "200"}

\* a chunk written at position k of a file: bytes between the end of the
\* file and position k read as zeroes (0)
WriteAt(body, k, chunk) ==
    [j \in 1..(IF k > Len(body) THEN k ELSE Len(body)) |->
        IF j = k THEN chunk ELSE IF j <= Len(body) THEN body[j] ELSE 0]

DownloadInit ==
    /\ \E exists \in BOOLEAN :
          plan = [NoPlan EXCEPT !.download =
                    [exists |-> exists, body |-> IF exists THEN Body ELSE <<>>,
                     calls |-> [c \in Calls |-> DownloadStart]]]
    /\ tasks = <<>>
    /\ depList = [t \in TaskObjs |-> <<>>]
    /\ edges = [t \in TaskObjs |-> <<>>]
    /\ ownHash = DistinctHashes
    /\ addErr = FALSE
    /\ sorted = NotSorted
    /\ hashLog = <<>>
    /\ parallelWorkers = 1
    /\ runsLeft = 1
    /\ RunnerIdle

\* the call c of downloadArtifact moves to cc, and the file becomes f
DownloadStep(c, cc, f) ==
    /\ plan' = [plan EXCEPT !.download =
                  [exists |-> f.exists, body |-> f.body,
                   calls |-> [plan.download.calls EXCEPT ![c] = cc]]]
    /\ UNCHANGED <<tasks, depList, edges, ownHash, addErr, sorted, hashLog,
                   runnerVars>>

\* lines 539-542: os.Stat on the local path
DownloadStat(c) ==
    LET d == plan.download
        x == d.calls[c]
    IN  /\ x.pc = "stat"
        /\ DownloadStep(c,
              IF d.exists
              THEN [x EXCEPT !.pc = "done", !.found = TRUE, !.accepted = d.body,
                             !.ret = "ok"]
              ELSE [x EXCEPT !.pc = "mkdir"], d)

\* lines 545-547: os.MkdirAll of the cache directory succeeds or fails
DownloadMkdir(c) ==
    LET d == plan.download
        x == d.calls[c]
    IN  /\ x.pc = "mkdir"
        /\ \/ DownloadStep(c, [x EXCEPT !.pc = "get"], d)
           \/ DownloadStep(c, [x EXCEPT !.pc = "done", !.ret = "mkdir failed"], d)

\* lines 551-569 and 591: one turn of the loop over the repositories, with
\* the return after the last of them
DownloadGet(c) ==
    LET d == plan.download
        x == d.calls[c]
    IN  /\ x.pc = "get"
        /\ \E resp \in Responses :
             LET y == [x EXCEPT !.requests = Append(@, Repositories[x.i]),
                                !.responses = Append(@, resp)]
             IN  DownloadStep(c,
                   IF resp = "200" THEN [y EXCEPT !.pc = "create"]
                   ELSE IF x.i = Len(Repositories)
                   THEN [y EXCEPT !.pc = "done", !.ret = "all repositories failed"]
                   ELSE [y EXCEPT !.i = @ + 1], d)

\* lines 572-576: os.Create truncates the file, or fails
DownloadCreate(c) ==
    LET d == plan.download
        x == d.calls[c]
    IN  /\ x.pc = "create"
        /\ \/ DownloadStep(c, [x EXCEPT !.pc = "copy"],
                            [exists |-> TRUE, body |-> <<>>])
           \/ DownloadStep(c, [x EXCEPT !.pc = "done", !.ret = "create failed"], d)

\* lines 579-587: io.Copy writes the next chunk at the position of the
\* call's file descriptor, or the read of the response body fails
DownloadCopy(c) ==
    LET d == plan.download
        x == d.calls[c]
        k == x.offset + 1
    IN  /\ x.pc = "copy"
        /\ \/ DownloadStep(c,
                  IF k = BodyLen
                  THEN [x EXCEPT !.offset = k, !.pc = "done", !.ret = "ok"]
                  ELSE [x EXCEPT !.offset = k],
                  [exists |-> TRUE, body |-> WriteAt(d.body, k, Body[k])])
           \/ DownloadStep(c, [x EXCEPT !.pc = "done", !.ret = "save failed"], d)

DownloadNext ==
    \E c \in Calls :
        \/ DownloadStat(c)
        \/ DownloadMkdir(c)
        \/ DownloadGet(c)
        \/ DownloadCreate(c)
        \/ DownloadCopy(c)

DownloadSpec == DownloadInit /\ [][DownloadNext]_vars

\* =========================================================================
\* ParseGradleBuildFile (build_parser.go 31-121) on build files of up to
\* MaxLines lines. A line is given by what the parser's tests make of its
\* trimmed text: the opening of a dependencies or plugins block, a lone
\* closing brace, a dependency declaration, a dependency declaration that
\* opens a configuration group, or a plugin declaration.
\* =========================================================================
MaxLines == 5

DependenciesOpen == "dependencies {"
PluginsOpen == "plugins {"
Close == "}"
Declaration == "implementation(\"g:n:1\")"
DeclarationGroup == "implementation(\"g:n:1\") {"
Plugin == "id(\"p\")"
LineKinds == {DependenciesOpen, PluginsOpen, Close, Declaration,
              DeclarationGroup, Plugin}

\* dependencyRegex and pluginRegex (build_parser.go 47, 51)
dependencyRegex(line) == line \in {Declaration, DeclarationGroup}
pluginRegex(line) == line = Plugin

\* one turn of the scanner loop (build_parser.go 53-118) on line number k
ParseLine(ps, k) ==
    LET line == ps.lines[k]
        next == [ps EXCEPT !.scanned = k]
    IN  IF line = DependenciesOpen
        THEN [next EXCEPT !.inDependenciesBlock = TRUE]
        ELSE IF line = PluginsOpen
        THEN [next EXCEPT !.inPluginsBlock = TRUE]
        ELSE IF line = Close
        THEN [next EXCEPT !.inDependenciesBlock = FALSE, !.inPluginsBlock = FALSE]
        ELSE [next EXCEPT
                !.Dependencies = IF ps.inDependenciesBlock /\ dependencyRegex(line)
                                 THEN Append(@, k) ELSE @,
                !.Plugins = IF ps.inPluginsBlock /\ pluginRegex(line)
                            THEN Append(@, k) ELSE @]

ParseInit ==
    /\ \E lines \in SeqsUpTo(LineKinds, MaxLines) :
          plan = [NoPlan EXCEPT !.parse = ParseStart(lines)]
    /\ tasks = <<>>
    /\ depList = [t \in TaskObjs |-> <<>>]
    /\ edges = [t \in TaskObjs |-> <<>>]
    /\ ownHash = DistinctHashes
    /\ addErr = FALSE
    /\ sorted = NotSorted
    /\ hashLog = <<>>
    /\ parallelWorkers = 1
    /\ runsLeft = 1
    /\ RunnerIdle

\* scanner.Scan() returned the next line
ParseScan ==
    /\ plan.parse.scanned < Len(plan.parse.lines)
    /\ plan' = [plan EXCEPT !.parse = ParseLine(@, @.scanned + 1)]
    /\ UNCHANGED <<tasks, depList, edges, ownHash, addErr, sorted, hashLog,
                   runnerVars>>

ParseNext == ParseScan

ParseSpec == ParseInit /\ [][ParseNext]_vars

\* ------------------------------------------------------------------- C1
\* C1: while a goroutine is inside Execute of a task B, every dependency A of
\* B has a recorded, successful result in the executed-tasks map and A's cache
\* directory exists, in sequential and in parallel mode.
C1_DepsRecordedBeforeExecute ==
    \A e \in InExecute :
        \A a \in deps[cur[e]] :
            /\ a \in DOMAIN executedTasks
            /\ ~executedTasks[a].err
            /\ executedTasks[a].hash \in cacheDirs
            /\ inputs[e][a].found

C1_Witness ==
    \E e \in InExecute :
        /\ ~Sequential
        /\ Cardinality(deps[cur[e]]) = 2
        /\ \E a \in deps[cur[e]] : ~executedTasks[a].cacheHit

\* ------------------------------------------------------------------- C2
\* C2: in parallel mode no task's Execute is invoked more than once in a run.
C2_AtMostOnce ==
    ~Sequential => \A t \in TaskObjs : execCount[t] <= 1

C2_Witness ==
    /\ ~Sequential
    /\ ReturnedNil
    /\ Len(tasks) = 3
    /\ \E t \in TaskSet : Cardinality(deps[t]) = 2
    /\ \A t \in TaskSet : execCount[t] = 1

\* ------------------------------------------------------------------- C3
\* C3: in a run that follows a run that returned no error, no task's Execute
\* is invoked and every result is flagged cache-hit.
C3_SecondRunOnlyCacheHits ==
    prevOk =>
        /\ \A t \in TaskObjs : execCount[t] = 0
        /\ \A i \in 1..Len(results) : results[i].cacheHit
        /\ \A i \in 1..Len(resultChan) : resultChan[i].cacheHit

\* ------------------------------------------------------------------- C4
\* C4: for a graph with a directed cycle no task's Execute is ever invoked, and
\* when the runner has returned it has returned an error.
C4_CycleRejected ==
    HasCycle =>
        /\ \A t \in TaskObjs : execCount[t] = 0
        /\ pcMain # "crashed"
        /\ Returned => retErr.kind \in {"sort", "ctx", "task", "runner"}

\* ------------------------------------------------------------------- C5
\* C5: no task that transitively depends on a task whose Execute failed is
\* executed; when the runner returns a task failure, the named task failed and
\* its result is the last of the returned results, after successful ones only;
\* the runner never returns success when a task failed, and without
\* cancellation or a cache I/O error it returns the task failure; every
\* successful result stays published in the cache.
C5_FailurePropagation ==
    /\ \A f \in failed : \A t \in Dependants(f) : execCount[t] = 0
    /\ (Returned /\ retErr.kind = "task") =>
          /\ retErr.task \in failed
          /\ results # <<>>
          /\ results[Len(results)].task = retErr.task
          /\ results[Len(results)].err
          /\ \A i \in 1..(Len(results) - 1) : ~results[i].err
    /\ (Returned /\ failed # {}) => retErr.kind # "nil"
    /\ (Returned /\ failed # {} /\ ~cancelled /\ ~ioFailed) => retErr.kind = "task"
    /\ \A i \in 1..Len(results) :
          ~results[i].err =>
              /\ results[i].hash \in cacheDirs
              /\ (results[i].files \cap Range(WorkFiles)) \subseteq DirFiles(results[i].hash)

C5_Witness ==
    /\ Returned
    /\ retErr.kind = "task"
    /\ Len(results) = 2
    /\ ~results[1].cacheHit
    /\ results[1].task \in deps[retErr.task]
    /\ \E t \in TaskSet : retErr.task \in deps[t] /\ execCount[t] = 0

\* ------------------------------------------------------------------- C6
\* C6: while a goroutine is inside Execute of T, the inputs hold an entry for
\* every dependency D of T whose OutputDir exists and contains every file of
\* the entry's Files.
C6_InputsVisible ==
    \A e \in InExecute :
        \A d \in deps[cur[e]] :
            /\ d \in DOMAIN inputs[e]
            /\ inputs[e][d].dir \in cacheDirs
            /\ \A f \in inputs[e][d].files : <<inputs[e][d].dir, f>> \in cacheFiles

\* ------------------------------------------------------------------- C7
\* C7: once the context is cancelled no step of the runner or of a worker
\* starts an Execute of any task, in sequential and in parallel mode.
C7_NoStartAfterCancel ==
    [][cancelled => \A t \in TaskObjs : execCount'[t] <= execCount[t]]_vars

\* ------------------------------------------------------------------- C8
\* C8: a parallel run of an acyclic graph whose dependencies are all tasks of
\* the graph, in which no task fails, no move into the cache fails and the
\* context is not cancelled, ends with the runner returned without error,
\* one result per task, the ready channel closed and every worker exited.
Terminated ==
    /\ ReturnedNil
    /\ queueClosed
    /\ Len(results) = Len(tasks)
    /\ ResultTasks = TaskSet
    /\ resultChan = <<>>
    /\ \A w \in Workers : wpc[w] = "exited"

C8_ParallelTerminates ==
    (pcMain = "collect" /\ ~HasCycle /\ DepsClosed)
        ~> (Terminated \/ failed # {} \/ ioFailed \/ cancelled)

C8_Witness ==
    /\ Terminated
    /\ ~Sequential
    /\ Len(tasks) = 3
    /\ \E t \in TaskSet : Cardinality(deps[t]) = 2
    /\ \A t \in TaskSet : execCount[t] = 1

\* ------------------------------------------------------------------- C9
\* C9: in parallel mode at most parallelWorkers goroutines are inside Execute
\* at any moment, and when the run returns without error every task was
\* executed exactly once unless it was served from the cache, in which case
\* it was not executed.
C9_BoundedConcurrency ==
    ~Sequential =>
        /\ Cardinality(InExecute) <= parallelWorkers
        /\ ReturnedNil =>
              \A t \in TaskSet :
                  /\ t \in DOMAIN executedTasks
                  /\ execCount[t] = IF executedTasks[t].cacheHit THEN 0 ELSE 1

\* C9 as stated: ... and when no task fails every task is executed exactly once.
C9_ExactlyOnceAsStated ==
    ~Sequential =>
        /\ Cardinality(InExecute) <= parallelWorkers
        /\ (ReturnedNil /\ failed = {}) => \A t \in TaskSet : execCount[t] = 1

C9_Witness ==
    /\ ~Sequential
    /\ Cardinality(InExecute) = parallelWorkers
    /\ Len(tasks) = 3

\* ------------------------------------------------------------------ C10
\* C10: a cache directory that is non-empty, and into which no move is in
\* progress, holds exactly the files written by one successful Execute of
\* the task with that hash.
MovingInto(h) == \E e \in Executors : wpc[e] = "moving" /\ ComputeTaskHash(cur[e]) = h

C10_CacheDirComplete ==
    \A h \in cacheDirs :
        (DirFiles(h) # {} /\ ~MovingInto(h)) => <<h, DirFiles(h)>> \in produced

\* ------------------------------------------------------------------ C11
\* C11: no file is moved into a cache directory after a move into that
\* directory has completed, and no two executions of one run complete a move
\* into the same cache directory.
C11_WriteOncePerHash ==
    /\ mutated = {}
    /\ \A p, q \in published : (p[1] = q[1] /\ p[3] = q[3]) => p[2] = q[2]

\* ------------------------------------------------------------------ C12
\* C12: every cache directory was created for an Execute that returned
\* success; a task whose Execute failed and whose closure hash no successful
\* Execute has published is not served from the cache, in this run or in a
\* later one; and a scratch directory exists only while its goroutine is
\* inside executeTask (Execute or the move), after success and after failure.
C12_FailureLeavesNoCache ==
    /\ cacheDirs = {p[1] : p \in produced}
    /\ \A t \in failedEver :
          (~ \E p \in produced : p[1] = ComputeTaskHash(t)) =>
              /\ ~isCached(ComputeTaskHash(t))
              /\ \A i \in 1..Len(results) :
                    results[i].task = t => ~results[i].cacheHit
    /\ \A e \in Executors : tempDir[e] => wpc[e] \in {"executing", "moving"}

\* a task that failed in an earlier run is inside Execute again
C12_Witness ==
    /\ runsLeft < MaxRuns
    /\ \E e \in InExecute :
          /\ cur[e] \in failedEver \ failed
          /\ ComputeTaskHash(cur[e]) \notin cacheDirs
          /\ tempDir[e]

\* ------------------------------------------------------------------ C13
\* C13: a task with a dependency that is no task of the graph is never
\* executed, and a run of a graph that holds such a task ends with the
\* runner returning an error, in sequential and in parallel mode.
MissingDeps == {t \in TaskSet : ~(deps[t] \subseteq TaskSet)}

C13_MissingDependencyFatal ==
    /\ [](\A t \in MissingDeps : execCount[t] = 0)
    /\ (pcMain = "idle" /\ MissingDeps # {})
          ~> ((Returned /\ retErr.kind # "nil") \/ pcMain = "crashed")

\* ------------------------------------------------------------------ C14
\* position of a task in a returned ordering (0: not in it)
Pos(r, t) == IF \E i \in 1..Len(r) : r[i] = t
             THEN CHOOSE i \in 1..Len(r) : r[i] = t ELSE 0

\* the returned ordering holds every task of the graph exactly once
IsOrdering(r) ==
    /\ r # CycleError
    /\ Len(r) = Len(tasks)
    /\ \A t \in TaskSet : Count(r, t) = 1

\* C14: for every acyclic graph whose tasks' dependencies are all in the
\* graph, TopologicalSort returns every task exactly once, each task after
\* all of its dependencies.
C14_SortOrdersDependencies ==
    (sorted # NotSorted /\ ~HasCycle /\ DepsClosed)
        => /\ IsOrdering(sorted)
           /\ \A t \in TaskSet : \A d \in deps[t] :
                  Pos(sorted, d) < Pos(sorted, t)

\* ------------------------------------------------------------------ C15
\* C15: for every graph that contains a directed cycle, a self-dependency
\* included, TopologicalSort returns the cycle error and no ordering.
C15_CycleIsAnError ==
    (sorted # NotSorted /\ HasCycle) => sorted = CycleError

\* ------------------------------------------------------------------ C16
\* ComputeTaskHash recurses through Dependencies() without a visited set:
\* it returns only when no task object depends on itself
HashDefined == \A t \in TaskObjs : t \notin Reach(t)

\* C16: after any sequence of AddTask calls no two tasks of the graph have
\* the same closure-hash (AddTask rejects a task whose closure-hash is that
\* of a task already in the graph).
C16_NoDuplicateClosureHash ==
    HashDefined =>
        \A t, u \in TaskSet :
            t # u => ComputeTaskHash(t) # ComputeTaskHash(u)

\* ------------------------------------------------------------------ C17
\* C17: putting a task's dependency list into another order changes no
\* closure-hash computed by ComputeTaskHash: not the task's own and not
\* that of any task that depends on it, directly or through other tasks.
C17_DependencyOrderInvariant ==
    Len(hashLog) = 2 =>
        \A t \in HashObjs : hashLog[2].hash[t] = hashLog[1].hash[t]

\* A's two dependencies, with different closure-hashes, were swapped
\* between the two computations, and D depends on A
C17_Witness ==
    /\ Len(hashLog) = 2
    /\ hashLog[1].lists["A"] = <<"B", "C">>
    /\ hashLog[2].lists["A"] = <<"C", "B">>
    /\ hashLog[1].hash["B"] # hashLog[1].hash["C"]
    /\ "A" \in Range(hashLog[2].lists["D"])

\* ------------------------------------------------------------------ C18
\* the closure-hashes of t's dependencies, one per entry of its list
DepHashes(e, t) == [i \in 1..Len(e.lists[t]) |-> e.hash[e.lists[t][i]]]

\* the same hashes, each the same number of times
SameBag(a, b) == \A h \in Range(a) \cup Range(b) : Count(a, h) = Count(b, h)

Remove(a, i) == [k \in 1..(Len(a) - 1) |-> IF k < i THEN a[k] ELSE a[k + 1]]

\* b is a with exactly one dependency closure-hash replaced by another
DifferInOne(a, b) ==
    /\ Len(a) = Len(b)
    /\ \E i \in 1..Len(a), j \in 1..Len(b) :
          a[i] # b[j] /\ SameBag(Remove(a, i), Remove(b, j))

\* C18 as stated: two tasks with the same own-hash and the same set of
\* dependency closure-hashes have the same closure-hash, and two tasks
\* with the same own-hash whose dependency closure-hashes differ in exactly
\* one dependency have different closure-hashes.
C18_SameSetSameHash ==
    \A k \in 1..Len(hashLog) : \A t, u \in HashObjs :
        LET e == hashLog[k] IN
        Hash(t) = Hash(u) =>
            /\ Range(DepHashes(e, t)) = Range(DepHashes(e, u))
                   => e.hash[t] = e.hash[u]
            /\ DifferInOne(DepHashes(e, t), DepHashes(e, u))
                   => e.hash[t] # e.hash[u]

\* C18 amended: two tasks with the same own-hash whose dependency lists
\* hold the same closure-hashes the same number of times have the same
\* closure-hash, and two tasks with the same own-hash whose dependency
\* closure-hashes differ in exactly one dependency have different
\* closure-hashes.
C18_SameBagSameHash ==
    \A k \in 1..Len(hashLog) : \A t, u \in HashObjs :
        LET e == hashLog[k] IN
        Hash(t) = Hash(u) =>
            /\ SameBag(DepHashes(e, t), DepHashes(e, u))
                   => e.hash[t] = e.hash[u]
            /\ DifferInOne(DepHashes(e, t), DepHashes(e, u))
                   => e.hash[t] # e.hash[u]

\* hashes were computed for two tasks with one own-hash and the same
\* dependency hashes in another order, and for two that differ in one
C18_Witness ==
    \E k \in 1..Len(hashLog) : \E t, u, v, w \in HashObjs :
        LET e == hashLog[k] IN
        /\ t # u /\ Hash(t) = Hash(u)
        /\ e.lists[t] # e.lists[u]
        /\ Len(e.lists[t]) = MaxDeps
        /\ SameBag(DepHashes(e, t), DepHashes(e, u))
        /\ e.hash[t] = e.hash[u]
        /\ v # w /\ Hash(v) = Hash(w)
        /\ DifferInOne(DepHashes(e, v), DepHashes(e, w))
        /\ e.hash[v] # e.hash[w]

\* ------------------------------------------------------------------ C19
\* the tasks of the returned results, in the order of the results
ResultOrder == [i \in 1..Len(results) |-> results[i].task]

\* C depends on B and B depends on A
Chain ==
    /\ TaskSet = TaskObjs
    /\ deps["A"] = {} /\ deps["B"] = {"A"} /\ deps["C"] = {"B"}

\* C19: in sequential mode tasks are executed one at a time in the order
\* the topological sort returned and the returned results are in that
\* order; for the chain C -> B -> A the order is exactly A, B, C, and a run
\* that returns nil has created three cache directories.
C19_SequentialOrder ==
    Sequential =>
        /\ \A e \in Executors :
               wpc[e] \in {"executing", "moving"}
                   => e = 0 /\ cur[e] = Head(orderedTasks)
        /\ pcMain = "seq" => (ResultOrder \o orderedTasks) \in TopologicalSort
        /\ Chain =>
               /\ pcMain = "seq"
                      => ResultOrder \o orderedTasks = <<"A", "B", "C">>
               /\ ReturnedNil
                      => /\ ResultOrder = <<"A", "B", "C">>
                         /\ Cardinality(cacheDirs) = 3

\* ------------------------------------------------------------------ C20
\* C20: after planning, every task that a task of the planned graph lists
\* as a dependency is itself in the planned graph; in particular, for a
\* project that declares an external dependency and has JUnit tests, the
\* graph holds the junit-platform-console-standalone artifact download.
C20_PlannedGraphClosed ==
    plan.done =>
        /\ \A t \in TaskSet : Range(depList[t]) \subseteq TaskSet
        /\ (plan.project.ext # {} /\ \E t \in TaskSet : t[1] = "ju")
               => Launcher \in TaskSet

\* ------------------------------------------------------------------ C21
JunitTests == {t \in TaskSet : t[1] = "ju"}
KotlinCompiles == {t \in TaskSet : t[1] \in KotlinKinds}

\* C21: after planning, every JUnit test task depends on every Kotlin
\* compile task of its compilation root, the main-source compile task
\* discovered in another directory than the test included.
C21_TestsDependOnAllCompiles ==
    plan.done =>
        \A t \in JunitTests : \A k \in KotlinCompiles : k \in Range(depList[t])

\* ------------------------------------------------------------------ C22
MainCompiles == {t \in TaskSet : t[1] = "km"}
TestCompiles == {t \in TaskSet : t[1] = "kt"}

\* C22: after planning a Gradle root that has a main-source compile task,
\* every test-source compile task and every JUnit test task of the root
\* depends on the root's JAR task, whichever of the main and the test
\* source directories was processed first.
C22_TestsDependOnJar ==
    (plan.done /\ MainCompiles # {}) =>
        \A t \in TestCompiles \cup JunitTests : Jar \in Range(depList[t])

\* ------------------------------------------------------------------ C23
ArtifactDownloads == {Jupiter, Launcher}

\* C23: after planning, the artifact-download dependencies of every Kotlin
\* compile task are exactly the downloads of the external dependencies the
\* build file declares: the same for every compile task of the root, in
\* every processing order, and without the JUnit console launcher that a
\* test directory processed earlier made the root create.
C23_CompileArtifactsAreDeclared ==
    plan.done =>
        \A k \in KotlinCompiles :
            Range(depList[k]) \cap ArtifactDownloads = plan.project.ext

\* ------------------------------------------------------------------ C24
\* C24: over a whole planning run the compilation root allocates at most
\* one JAR task, and after planning every main-source compile task of the
\* root is a dependency of that JAR task.
C24_OneJarWithAllMainCompiles ==
    /\ plan.root.jarAllocs <= 1
    /\ plan.done => \A k \in MainCompiles : k \in Range(depList[Jar])

\* two directories of the root gave a main-source compile task
C24_Witness ==
    /\ plan.done
    /\ Cardinality(MainCompiles) = 2
    /\ plan.root.jarAllocs = 1
    /\ Jar \in TaskSet

\* ------------------------------------------------------------------ C25
\* C25: for a directory with a build.gradle.kts, every IsCompilationRoot
\* call on the structure discoverer returns the same compilation-root
\* instance: one instance is created in a planning run, every directory is
\* processed with it, and a directory processed after one that made the
\* root allocate its JAR task finds that JAR task on the instance.
C25_SameRootInstance ==
    /\ plan.created <= 1
    /\ \A i, j \in 1..Len(plan.log) : plan.log[i].root = plan.log[j].root
    /\ \A i \in 1..Len(plan.log) :
          plan.log[i].jarSeen =
              (\E j \in 1..(i - 1) : \E t \in plan.log[j].discovered : t[1] = "km")

\* a later directory of the root got the instance with the cached JAR task
C25_Witness ==
    /\ Len(plan.log) >= 2
    /\ plan.log[Len(plan.log)].jarSeen
    /\ plan.created = 1

\* ------------------------------------------------------------------ C26
\* C26: planning processes directories deepest first: every processed
\* strict subdirectory of a processed directory D was processed before D,
\* and the potential dependencies the discoverers got for D are exactly
\* the tasks stored for the strict subdirectories of D, never those of D
\* itself, of a sibling or of an ancestor.
C26_DeepestFirst ==
    \A i \in 1..Len(plan.log) :
        LET D == plan.log[i].dir
        IN  /\ \A j \in 1..Len(plan.log) :
                  isSubdirectory(D, plan.log[j].dir) => j < i
            /\ \A s \in Range(plan.dirs) : ~isSubdirectory(D, s)
            /\ plan.log[i].potential =
                  UNION {Range(plan.tasksByDir[plan.log[j].dir]) :
                           j \in {k \in 1..(i - 1) :
                                     isSubdirectory(D, plan.log[k].dir)}}

\* a directory was processed with the tasks of a subdirectory as potential
\* dependencies while a sibling processed before it had tasks too
C26_Witness ==
    \E i, j \in 1..Len(plan.log) :
        /\ j < i
        /\ plan.log[i].potential # {}
        /\ plan.log[j].discovered # {}
        /\ ~isSubdirectory(plan.log[i].dir, plan.log[j].dir)
        /\ plan.log[j].discovered \cap plan.log[i].potential = {}

\* ------------------------------------------------------------------ C27
\* the directories planning processed, as the paths the walk gave them
ProcessedPaths == {AbsPath(plan.project, d) : d \in Range(plan.validDirs)}

\* C27: after a plan, no directory that planning processed has a path
\* component from the skip-list, and no processed directory other than
\* the plan root is hidden.
C27_NoSkippedComponent ==
    plan.done =>
        /\ \A path \in ProcessedPaths :
              \A i \in 1..Len(path) : ~isSkippableDir(path[i])
        /\ \A d \in Range(plan.validDirs) :
              d # <<>> => BaseName(plan.project, d) \notin HiddenNames

\* C27 as the walk establishes it: the plan root's own name and every
\* component below the plan root are outside the skip-list, every
\* component below the plan root is not hidden; the directories above
\* the plan root are never looked at.
C27_NoSkippedComponentBelowRoot ==
    plan.done =>
        \A d \in Range(plan.validDirs) :
            /\ ~isSkippableDir(BaseName(plan.project, <<>>))
            /\ \A i \in 1..Len(d) :
                  ~isSkippableDir(d[i]) /\ d[i] \notin HiddenNames

\* a tree with a hidden and a build directory was walked from a hidden root
C27_Witness ==
    /\ plan.done
    /\ {<<".git">>, Classes} \subseteq plan.project.exists
    /\ BaseName(plan.project, <<>>) \in HiddenNames
    /\ MainK \in Range(plan.validDirs)

\* ------------------------------------------------------------------ C28
\* the directories of the chain whose fbs.conf.json has a record for id
Defining(id) ==
    {k \in 1..Len(ConfigDirs) :
        id \in DOMAIN plan.configuration.files[k].Discoverers}

Deepest(S) == CHOOSE k \in S : \A j \in S : j <= k

\* C28: when fbs.conf.json files at an ancestor and at a descendant
\* directory define the same discoverer id, the merged configuration holds
\* the descendant's record for the id unchanged (no deep merge), and it
\* keeps the ancestor's records for the ids the descendant does not define.
C28_DescendantRecordReplaces ==
    (plan.configuration.pc = "done" /\ ~plan.configuration.err) =>
        /\ DOMAIN plan.configuration.Discoverers =
              {id \in DiscovererIds : Defining(id) # {}}
        /\ \A id \in DOMAIN plan.configuration.Discoverers :
              plan.configuration.Discoverers[id] =
                  plan.configuration.files[Deepest(Defining(id))].Discoverers[id]

\* an ancestor and the start directory define the same id with records of
\* different keys, and the ancestor defines an id the start directory
\* does not
C28_Witness ==
    /\ plan.configuration.pc = "done"
    /\ ~plan.configuration.err
    /\ Defining("artifact-download") = {1, 3}
    /\ Defining("kotlin") = {1}
    /\ plan.configuration.files[1].Discoverers["artifact-download"] =
          {<<"repositories", "central">>}
    /\ plan.configuration.Discoverers["artifact-download"] = {<<"timeout", "60">>}
    /\ plan.configuration.Discoverers["kotlin"] =
          plan.configuration.files[1].Discoverers["kotlin"]

\* ------------------------------------------------------------------ C29
\* the discoverer / directory pairs whose Discover call returns an error
\* in a directory that is processed
FailedCalls ==
    {f \in plan.project.failing :
        f[1] \in Range(plan.validDirs) /\ plan.project.build}

\* what the discoverers that did not fail find in directory d
Successful(d) ==
    (IF <<d, "KotlinDiscoverer">> \in plan.project.failing
     THEN {} ELSE Range(KotlinDiscover(plan.project, d)))
    \cup
    (IF <<d, "JunitDiscoverer">> \in plan.project.failing
     THEN {} ELSE Range(JunitDiscover(plan.project, d)))

\* C29: when a discoverer fails on a directory, planning records the
\* error, still runs the remaining discoverers on that directory, still
\* processes the remaining directories, and returns the graph built from
\* the successful discoveries together with the collected errors.
C29_FailureIsCollected ==
    (plan.done /\ plan.project.build) =>
        /\ Range(plan.errors) = {<<f[2], f[1]>> : f \in FailedCalls}
        /\ {e.dir : e \in Range(plan.log)} = Range(plan.validDirs)
        /\ \A e \in Range(plan.log) : e.discovered = Successful(e.dir)
        /\ \A t \in Kinds \X DirTree :
              t \in TaskSet <=>
                  (t[2] \in Range(plan.validDirs) /\ t \in Successful(t[2]))

\* the Kotlin discoverer failed on the test source root, the JUnit
\* discoverer found its test there, and the main sources were compiled
C29_Witness ==
    /\ plan.done
    /\ FailedCalls = {<<TestK, "KotlinDiscoverer">>}
    /\ plan.errors = << <<"KotlinDiscoverer", TestK>> >>
    /\ <<"ju", TestK>> \in TaskSet
    /\ <<"kt", TestK>> \notin TaskSet
    /\ TestK \in plan.project.kt
    /\ <<"km", MainK>> \in TaskSet

\* ------------------------------------------------------------------ C30
\* C30: whenever TopologicalSort is called on a graph, the adjacency it
\* sorts by equals each task's current Dependencies(), also for the
\* dependencies a task received after it was inserted into the graph.
C30_SortSeesCurrentDependencies ==
    sorted # NotSorted => \A t \in TaskSet : edges[t] = depList[t]

\* ------------------------------------------------------------------ C38
\* C38: the file list a dependant task receives for a dependency is the
\* same whether the dependency was executed in this run or served from
\* the cache: a list taken from the cache equals the list the Execute
\* that produced the cache directory returned.
C38_SameFilesFromCache ==
    \A e \in InExecute : \A d \in deps[cur[e]] :
        (d \in DOMAIN executedTasks /\ executedTasks[d].cacheHit) =>
            \A i \in 1..Len(results) :
                (/\ ~results[i].cacheHit
                 /\ ~results[i].err
                 /\ results[i].hash = executedTasks[d].hash)
                    => inputs[e][d].files = results[i].files


\* ------------------------------------------------------------------ C36
\* the worker goroutines of the run that have not left workerParallel
LiveWorkers == {w \in Workers : wpc[w] \in {"idle", "executing", "moving"}}

\* C36: after the parallel runner has returned, for whatever reason, every
\* worker goroutine it started eventually exits (stated for the last run, after
\* which no goroutine is started again).
C36_WorkersExitAfterReturn ==
    (Returned /\ ~Sequential /\ runsLeft = 1) ~> (LiveWorkers = {})

\* ------------------------------------------------------------------ C37
\* C37: once the parallel runner has returned because a task failed, no
\* task's Execute is started and nothing more is put into the cache.
C37_NothingAfterFailureReturn ==
    [][(/\ Returned /\ ~Sequential /\ retErr.kind = "task"
        /\ pcMain' = "returned")
          => (/\ execCount' = execCount
              /\ cacheDirs' = cacheDirs
              /\ cacheFiles' = cacheFiles)]_vars


\* ------------------------------------------------------------------ C35
\* what the sequential runner does with tasks of one closure hash: a task is
\* executed after another one of the same hash only if that one left nothing
\* in the cache directory; otherwise it is served from the directory
ExecutedAsSequential ==
    \A i, j \in 1..Len(results) :
        (/\ i < j
         /\ results[i].hash = results[j].hash
         /\ ~results[i].cacheHit
         /\ ~results[j].cacheHit) => results[i].files \cap Range(WorkFiles) = {}

\* C35: on an acyclic graph in which no task fails, a parallel run returns
\* one result per task like a sequential run, and executes the same tasks as
\* the sequential run does: the others are served from the cache.
C35_ParallelAsSequential ==
    (ReturnedNil /\ failed = {} /\ ~HasCycle) =>
        /\ ResultTasks = TaskSet
        /\ Len(results) = Len(tasks)
        /\ ExecutedAsSequential


\* ------------------------------------------------------------------ C39
\* the tasks a task reaches over the dependency lists of the planned graph
RECURSIVE PlanReach(_, _)
PlanReach(S, n) ==
    IF n = 0 THEN S
    ELSE PlanReach(S \cup UNION {Range(depList[t]) : t \in S}, n - 1)
DependsOnItself(t) == t \in PlanReach(Range(depList[t]), Cardinality(TaskSet))

\* C39: the stitching of a Gradle root never creates a dependency cycle: no
\* compile task is at once a dependency of the root's JAR task and dependent
\* on that JAR task, and no task of the planned graph reaches itself, also
\* when the path of a source directory contains both src/main and src/test.
C39_StitchingAcyclic ==
    /\ \A k \in KotlinCompiles :
          ~(k \in Range(depList[Jar]) /\ Jar \in Range(depList[k]))
    /\ \A t \in TaskSet : ~DependsOnItself(t)


\* ------------------------------------------------------------------ C31
\* the selected tasks and everything they reach over Dependencies()
Wanted == Range(plan.execution.filtered) \cup Closure(Range(plan.execution.filtered))

\* C31: the execution graph of a build, test or deps command holds exactly
\* the tasks the filter selected and their transitive dependencies, each of
\* them once and after all of its dependencies, so that every dependency
\* recorded in the execution graph is a task of it.
C31_ExecutionGraphClosed ==
    plan.execution.pc = "run" =>
        /\ TaskSet = Wanted
        /\ \A i, j \in 1..Len(tasks) : tasks[i] = tasks[j] => i = j
        /\ \A i \in 1..Len(tasks) : \A d \in deps[tasks[i]] :
              \E j \in 1..(i - 1) : tasks[j] = d
        /\ \A t \in TaskSet : Range(edges[t]) \subseteq TaskSet


\* ------------------------------------------------------------------ C32
\* the calls of downloadArtifact that have returned
Downloaded == {c \in DOMAIN plan.download.calls : plan.download.calls[c].pc = "done"}
FailedResponse(r) == r # "200"

\* C32: a download that finds the jar at the local cache path succeeds
\* without an HTTP request; otherwise the repositories are requested in the
\* configured order, the first 200 response ends the requests and its body
\* is saved, and the download fails only when every repository failed.
C32_DownloadTriesAllRepositories ==
    \A c \in Downloaded :
        LET x == plan.download.calls[c]
            n == Len(x.requests)
        IN  /\ x.found => (x.ret = "ok" /\ n = 0)
            /\ x.requests = SubSeq(Repositories, 1, n)
            /\ \A k \in 1..(n - 1) : FailedResponse(x.responses[k])
            /\ (x.ret = "ok" /\ ~x.found) =>
                  (x.responses[n] = "200" /\ x.offset = BodyLen)
            /\ x.ret # "ok" =>
                  (/\ n = Len(Repositories)
                   /\ \A k \in 1..n : FailedResponse(x.responses[k]))

\* ------------------------------------------------------------------ C33
\* the calls that are between os.Create and the end of io.Copy
Saving == {c \in DOMAIN plan.download.calls : plan.download.calls[c].pc = "copy"}

\* C33: a jar file at the local cache path that no call is writing is the
\* complete body of a download, also after a save was interrupted or two
\* downloads of the coordinate ran at once, and what a call found at the
\* path and accepted as present was the complete body.
C33_NoPartialJarAccepted ==
    /\ (plan.download.exists /\ Saving = {}) => plan.download.body = Body
    /\ \A c \in DOMAIN plan.download.calls :
          plan.download.calls[c].found => plan.download.calls[c].accepted = Body


\* ------------------------------------------------------------------ C34
\* the blocks of a build file by its braces: the stack of the blocks open
\* before line k ("-" for a group that is neither dependencies nor plugins;
\* a closing brace without an open block leaves the stack empty)
RECURSIVE OpenBlocks(_, _)
OpenBlocks(lines, k) ==
    IF k <= 1 THEN <<>>
    ELSE LET before == OpenBlocks(lines, k - 1)
             line == lines[k - 1]
         IN  IF line = DependenciesOpen THEN Append(before, "dependencies")
             ELSE IF line = PluginsOpen THEN Append(before, "plugins")
             ELSE IF line = DeclarationGroup THEN Append(before, "-")
             ELSE IF line = Close /\ before # <<>>
             THEN SubSeq(before, 1, Len(before) - 1)
             ELSE before

\* every closing brace closes an open block, and every block is closed
Balanced(lines) ==
    /\ \A k \in 1..Len(lines) : lines[k] = Close => OpenBlocks(lines, k) # <<>>
    /\ OpenBlocks(lines, Len(lines) + 1) = <<>>

\* the declaration lines between a "dependencies {" and its closing brace
DeclaredInBlock(lines) ==
    {k \in 1..Len(lines) :
        /\ dependencyRegex(lines[k])
        /\ "dependencies" \in Range(OpenBlocks(lines, k))}

\* C34: when the parser has read a build file whose braces match, it has
\* recorded exactly the dependency declaration lines between a
\* "dependencies {" and the closing brace of that block, those after a
\* nested { ... } group of the block included, and none outside the block.
C34_DeclarationsOfBlockRecorded ==
    (plan.parse.scanned = Len(plan.parse.lines) /\ Balanced(plan.parse.lines)) =>
        Range(plan.parse.Dependencies) = DeclaredInBlock(plan.parse.lines)

====
